---- MODULE Spec2Model ----
(***************************************************************************)
(* Verification model of the GHL MCP integration: the rate limiter and the *)
(* retry wrapper of the shared utilities, the MCP protocol client and the  *)
(* action facade that binds them to one location.                          *)
(***************************************************************************)
EXTENDS Integers, Sequences, FiniteSets, TLC

VARIABLES
  now,          \* Date.now(), in ms since the limiter was created
  nticks,       \* number of clock advances so far (bounds the run)
  opts,         \* the limiter's options {maxPerWindow, windowMs, maxPerDay}
  windowStart,  \* createRateLimiter: let windowStart
  windowCount,  \* createRateLimiter: let windowCount
  dayStart,     \* createRateLimiter: let dayStart
  dayCount,     \* createRateLimiter: let dayCount
  acq,          \* per caller: where its acquire() call stands
  winCalls,     \* observer: acquire() calls that reached the window check in the current window
  winAdmits,    \* observer: admissions counted since the last window reset
  dayAdmits,    \* observer: admissions counted since the last day reset
  ev,           \* observer: the last operation and what it returned
  rt,           \* withRetry: the state of one withRetry(fn, opts) call
  sessionId,           \* createMcpClient: let sessionId
  initialized,         \* createMcpClient: let initialized
  serverCapabilities,  \* createMcpClient: let serverCapabilities
  serverInfo,          \* createMcpClient: let serverInfo
  requestId,           \* the process-wide _requestId
  task,                \* per task: the operation it runs and where that stands
  handshakes,          \* observer: initialize requests sent since creation or the last close()
  nsent,               \* observer: HTTP requests sent by the client
  nops,                \* observer: operations started (bounds the run)
  sse,                 \* sendJsonRpc on an event-stream response: messages, request id, result
  xfer,                \* sendJsonRpc, per caller: the fetch in flight and its timer
  peer,                \* a second client of the process: its closure and its call in flight
  parse,               \* parseSSEResponse: the stream, the chunks read, buffer and messages
  op,                  \* a derived facade operation: its input, the calls made, its outcome
  mon                  \* the monitoring engine: the checks of one run and its report

limVars == <<now, nticks, opts, windowStart, windowCount, dayStart, dayCount,
             acq, winCalls, winAdmits, dayAdmits>>
limState == <<nticks, opts, windowStart, windowCount, dayStart, dayCount,
              acq, winCalls, winAdmits, dayAdmits>>
clientVars == <<sessionId, initialized, serverCapabilities, serverInfo, requestId,
                task, handshakes, nsent, nops>>
derivedVars == <<parse, op, mon>>
pureVars == <<rt, sse, xfer, peer, derivedVars>>
nonLimVars == <<pureVars, clientVars>>
nonRetryVars == <<limVars, ev, clientVars, sse, xfer, peer, derivedVars>>
nonClientVars == <<limVars, pureVars>>
nonSseVars == <<limVars, ev, rt, clientVars, xfer, peer, derivedVars>>
nonParseVars == <<limVars, ev, rt, clientVars, sse, xfer, peer, op, mon>>
nonOpVars == <<limVars, ev, rt, clientVars, sse, xfer, peer, parse, mon>>
nonMonVars == <<limVars, ev, rt, clientVars, sse, xfer, peer, parse, op>>
vars == <<limVars, ev, rt, clientVars, sse, xfer, peer, derivedVars>>

----------------------------------------------------------------------------
(* Bounds of the model *)

NumProcs == 3          \* concurrent callers
MaxTicks == 3          \* clock advances in one run
OptMaxPerWindow == 2   \* opts.maxPerWindow passed to createRateLimiter
OptWindowMs == 2       \* opts.windowMs passed to createRateLimiter
OptMaxPerDay == 4      \* opts.maxPerDay passed to createRateLimiter
OptMaxRetries == 3     \* opts.maxRetries passed to withRetry
OptBaseDelayMs == 2    \* opts.baseDelayMs passed to withRetry
NumTasks == 2          \* concurrent operations on one client
MaxOps == 3            \* operations started in one run
MaxClientSends == 3     \* requests sent by the client used directly before its run stops
OptTimeoutMs == 2       \* config.timeoutMs passed to createMcpClient
MaxAttempts == 1        \* retry attempts of one request that are followed
MaxMsgs == 3            \* messages decoded from one event stream
MaxSends == 2           \* requests handed to fetch in one facade run
MaxFrames == 2          \* data lines of one event stream
MaxIds == 2             \* identifiers passed to one batch operation
MaxConvs == 2           \* conversations returned by one search
MaxPipes == 2           \* pipelines returned by get-pipelines
MaxOpps == 2            \* opportunities returned by one search
FewContacts == 2        \* contacts held by the CRM in a run whose rejected calls time out

(* Program constants *)

DayMs == 86400000           \* resetDayIfNeeded: 86_400_000
SafetyMarginMs == 50        \* acquire: + 50
DefaultMaxPerWindow == 100  \* createRateLimiter: maxPerWindow = 100
DefaultWindowMs == 10000    \* createRateLimiter: windowMs = 10_000
DefaultMaxPerDay == 200000  \* createRateLimiter: maxPerDay = 200_000
DefaultMaxRetries == 3      \* withRetry: maxRetries = 3
DefaultBaseDelayMs == 1000  \* withRetry: baseDelayMs = 1000
DefaultTimeoutMs == 30000   \* DEFAULT_TIMEOUT_MS = 30_000

Procs == 1..NumProcs

\* The clock advances by one of these amounts.
TickSet == {1, OptWindowMs + SafetyMarginMs, DayMs}

----------------------------------------------------------------------------
(* createRateLimiter *)

\* Variant: the window is reset on every call, elapsed or not.
ResetWindowAlways(t, ws, wc, windowMs) ==
  [start |-> t, count |-> 0, reset |-> TRUE]

\* resetWindowIfNeeded, as a function of the clock and the window state.
ResetWindowIfNeeded(t, ws, wc, windowMs) ==
  IF t - ws >= windowMs THEN [start |-> t, count |-> 0, reset |-> TRUE]
                        ELSE [start |-> ws, count |-> wc, reset |-> FALSE]

\* Variant: the day is restarted on every call, elapsed or not.
ResetDayAlways(t, ds, dc) ==
  [start |-> t, count |-> 0, reset |-> TRUE]

\* resetDayIfNeeded
ResetDayIfNeeded(t, ds, dc) ==
  IF t - ds >= DayMs THEN [start |-> t, count |-> 0, reset |-> TRUE]
                     ELSE [start |-> ds, count |-> dc, reset |-> FALSE]

\* Variant: the daily check is off by one (>).
DayCapExceeded(dc, maxPerDay) == dc > maxPerDay

\* acquire: if (dayCount >= maxPerDay) throw
DayCapReached(dc, maxPerDay) == dc >= maxPerDay

\* Variant: the window check is off by one (>).
WindowOverfull(wc, maxPerWindow) == wc > maxPerWindow

\* acquire: if (windowCount >= maxPerWindow) wait
WindowFull(wc, maxPerWindow) == wc >= maxPerWindow

\* acquire: const waitMs = windowMs - (Date.now() - windowStart) + 50
WaitMs(t, ws, windowMs) == windowMs - (t - ws) + SafetyMarginMs

\* Variant: the increment is lost.
IncrLost(n) == n

\* acquire: windowCount++ / dayCount++
Incr(n) == n + 1

Idle == [pc |-> "idle", wakeAt |-> 0, ws |-> 0]

\* What acquire() does up to its first suspension point, for the state it is
\* called in at time t: "quota" (throws), "sleep" (awaits the timer) or "admit".
AcquireOutcome(t) ==
  LET d == ResetDayIfNeeded(t, dayStart, dayCount)
      w == ResetWindowIfNeeded(t, windowStart, windowCount, opts.windowMs)
  IN IF DayCapReached(d.count, opts.maxPerDay) THEN "quota"
     ELSE IF WindowFull(w.count, opts.maxPerWindow) THEN "sleep"
     ELSE "admit"

\* acquire(), called when Date.now() is t, from the call to the first await or
\* to its return.
AcquireEnter(p, t) ==
  /\ acq[p].pc = "idle"
  /\ LET d == ResetDayIfNeeded(t, dayStart, dayCount)
         w == ResetWindowIfNeeded(t, windowStart, windowCount, opts.windowMs)
         out == AcquireOutcome(t)
         nth == (IF w.reset THEN 0 ELSE winCalls) + 1
     IN /\ dayStart' = d.start
        /\ dayAdmits' = IF out = "admit" THEN (IF d.reset THEN 0 ELSE dayAdmits) + 1
                        ELSE IF d.reset THEN 0 ELSE dayAdmits
        /\ IF out = "quota"
           THEN /\ dayCount' = d.count
                /\ UNCHANGED <<windowStart, windowCount, acq, winCalls, winAdmits>>
                /\ ev' = [op |-> "acquire", p |-> p, outcome |-> "quota"]
           ELSE /\ windowStart' = w.start
                /\ winCalls' = nth
                /\ IF out = "sleep"
                   THEN /\ windowCount' = w.count
                        /\ dayCount' = d.count
                        /\ winAdmits' = IF w.reset THEN 0 ELSE winAdmits
                        /\ acq' = [acq EXCEPT ![p] =
                                     [pc |-> "sleeping",
                                      wakeAt |-> t + WaitMs(t, w.start, opts.windowMs),
                                      ws |-> w.start]]
                   ELSE /\ windowCount' = Incr(w.count)
                        /\ dayCount' = Incr(d.count)
                        /\ winAdmits' = (IF w.reset THEN 0 ELSE winAdmits) + 1
                        /\ acq' = acq
                /\ ev' = [op |-> "acquire", p |-> p, outcome |-> out, nth |-> nth,
                          ws |-> w.start,
                          wakeAt |-> t + WaitMs(t, w.start, opts.windowMs)]
  /\ now' = t
  /\ UNCHANGED <<nticks, opts>>

\* acquire(), resumed by its timer: resetWindowIfNeeded(); windowCount++; dayCount++
AcquireWake(p) ==
  /\ acq[p].pc = "sleeping"
  /\ now >= acq[p].wakeAt
  /\ LET w == ResetWindowIfNeeded(now, windowStart, windowCount, opts.windowMs)
     IN /\ windowStart' = w.start
        /\ windowCount' = Incr(w.count)
        /\ dayCount' = Incr(dayCount)
        /\ winCalls' = (IF w.reset THEN 0 ELSE winCalls) + 1
        /\ winAdmits' = (IF w.reset THEN 0 ELSE winAdmits) + 1
        /\ dayAdmits' = dayAdmits + 1
        /\ ev' = [op |-> "wake", p |-> p, ws |-> acq[p].ws, reset |-> w.reset]
  /\ acq' = [acq EXCEPT ![p] = Idle]
  /\ UNCHANGED <<now, nticks, opts, dayStart>>

\* stats()
StatsResult(wc, dc) ==
  [windowRemaining |-> opts.maxPerWindow - wc,
   dayRemaining |-> opts.maxPerDay - dc,
   dayCount |-> dc]

Stats ==
  LET w == ResetWindowIfNeeded(now, windowStart, windowCount, opts.windowMs)
      d == ResetDayIfNeeded(now, dayStart, dayCount)
  IN /\ windowStart' = w.start
     /\ windowCount' = w.count
     /\ dayStart' = d.start
     /\ dayCount' = d.count
     /\ winCalls' = IF w.reset THEN 0 ELSE winCalls
     /\ winAdmits' = IF w.reset THEN 0 ELSE winAdmits
     /\ dayAdmits' = IF d.reset THEN 0 ELSE dayAdmits
     /\ ev' = [op |-> "stats", result |-> StatsResult(w.count, d.count),
               resetW |-> w.reset, resetD |-> d.reset]
     /\ UNCHANGED <<now, nticks, opts, acq>>

\* Time passes.
Tick ==
  /\ nticks < MaxTicks
  /\ \E d \in TickSet : now' = now + d
  /\ nticks' = nticks + 1
  /\ ev' = [op |-> "tick"]
  /\ UNCHANGED <<opts, windowStart, windowCount, dayStart, dayCount,
                 acq, winCalls, winAdmits, dayAdmits>>

\* createRateLimiter(opts): the limiter as constructed.
LimiterStart ==
  /\ now = 0
  /\ nticks = 0
  /\ opts = [maxPerWindow |-> OptMaxPerWindow, windowMs |-> OptWindowMs,
             maxPerDay |-> OptMaxPerDay]
  /\ windowStart = 0
  /\ windowCount = 0
  /\ dayStart = 0
  /\ dayCount = 0
  /\ acq = [p \in Procs |-> Idle]
  /\ winCalls = 0
  /\ winAdmits = 0
  /\ dayAdmits = 0
  /\ ev = [op |-> "init"]

RetryOff == rt = [pc |-> "off"]
SseOff == sse = [pc |-> "off"]
XferOff == xfer = [pc |-> "off"]
PeerOff == peer = [pc |-> "off"]
ParseOff == parse = [pc |-> "off"]
OpOff == op = [pc |-> "off"]
MonOff == mon = [pc |-> "off"]
DerivedOff == ParseOff /\ OpOff /\ MonOff

NoTask == [pc |-> "off"]

ClientOff ==
  /\ sessionId = "null"
  /\ initialized = FALSE
  /\ serverCapabilities = "null"
  /\ serverInfo = "null"
  /\ requestId = 0
  /\ task = NoTask
  /\ handshakes = 0
  /\ nsent = 0
  /\ nops = 0

LimiterInit ==
  LimiterStart /\ RetryOff /\ SseOff /\ XferOff /\ PeerOff /\ DerivedOff /\ ClientOff

----------------------------------------------------------------------------
(* The limiter under concurrent callers *)

LimEnter == (\E p \in Procs : AcquireEnter(p, now)) /\ UNCHANGED nonLimVars
LimWake == (\E p \in Procs : AcquireWake(p)) /\ UNCHANGED nonLimVars
LimStats == Stats /\ UNCHANGED nonLimVars
LimTick == Tick /\ UNCHANGED nonLimVars

LimiterNext == LimEnter \/ LimWake \/ LimStats \/ LimTick

SpecLimiter == LimiterInit /\ [][LimiterNext]_vars

(* The limiter used sequentially: an acquire() is called only when no other
   acquire() is pending. *)

NoPending == \A q \in Procs : acq[q].pc = "idle"

SeqEnter == NoPending /\ (\E p \in Procs : AcquireEnter(p, now)) /\ UNCHANGED nonLimVars
SeqWake == (\E p \in Procs : AcquireWake(p)) /\ UNCHANGED nonLimVars
SeqStats == Stats /\ UNCHANGED nonLimVars
SeqTick == Tick /\ UNCHANGED nonLimVars

LimiterSeqNext == SeqEnter \/ SeqWake \/ SeqStats \/ SeqTick

SpecLimiterSeq == LimiterInit /\ [][LimiterSeqNext]_vars

----------------------------------------------------------------------------
(* Text: a JavaScript string is a sequence of characters *)

StrFetchFailed == <<"f","e","t","c","h"," ","f","a","i","l","e","d">>
StrHttpSp == <<"H","T","T","P"," ">>
StrMcpHttp == <<"M","C","P"," ","H","T","T","P"," ">>
StrColonSp == <<":"," ">>
StrAborted == <<"T","h","i","s"," ","o","p","e","r","a","t","i","o","n"," ","w","a","s"," ","a","b","o","r","t","e","d">>
StrToolsCallError == <<"M","C","P"," ","t","o","o","l","s","/","c","a","l","l"," ","e","r","r","o","r"," ","(">>
StrParenColonSp == <<")",":"," ">>
StrDailyLimit == <<"D","a","i","l","y"," ","r","a","t","e"," ","l","i","m","i","t"," ","r","e","a","c","h","e","d"," ","(">>
StrCloseParen == <<")">>
StrJsonCode == <<"{","\"","c","o","d","e","\"",":">>
StrJsonMessage == <<",","\"","m","e","s","s","a","g","e","\"",":">>
StrJsonEnd == <<"}">>

DigitChars == <<"0","1","2","3","4","5","6","7","8","9">>
IsDigit(c) == \E i \in 1..10 : DigitChars[i] = c
DigitValue(c) == (CHOOSE i \in 1..10 : DigitChars[i] = c) - 1

\* The characters U+0020 to U+007E, in order (U+0060, which a string of this
\* notation cannot hold, by its code).
Ascii ==
  << " ", "!", "\"", "#", "$", "%", "&", "'", "(", ")", "*", "+", ",", "-", ".", "/",
     "0", "1", "2", "3", "4", "5", "6", "7", "8", "9", ":", ";", "<", "=", ">", "?",
     "@", "A", "B", "C", "D", "E", "F", "G", "H", "I", "J", "K", "L", "M", "N", "O",
     "P", "Q", "R", "S", "T", "U", "V", "W", "X", "Y", "Z", "[", "\\", "]", "^", "_",
     "U+0060", "a", "b", "c", "d", "e", "f", "g", "h", "i", "j", "k", "l", "m", "n", "o",
     "p", "q", "r", "s", "t", "u", "v", "w", "x", "y", "z", "{", "|", "}", "~" >>

HexChars == <<"0","1","2","3","4","5","6","7","8","9","A","B","C","D","E","F">>
LowerHex == <<"0","1","2","3","4","5","6","7","8","9","a","b","c","d","e","f">>
IsHex(c) == \E i \in 1..16 : HexChars[i] = c \/ LowerHex[i] = c
HexValue(c) == (CHOOSE i \in 1..16 : HexChars[i] = c \/ LowerHex[i] = c) - 1

\* The code units U+0000 to U+001F, written by their codes (tab, line feed and
\* carriage return are also written "\t", "\n", "\r"), in order.
ControlTokens ==
  [i \in 1..32 |-> "U+00" \o HexChars[((i - 1) \div 16) + 1] \o HexChars[((i - 1) % 16) + 1]]

\* The code of a code unit below U+0020, and -1 for any other code unit.
ControlUnits == {ControlTokens[i] : i \in 1..32} \cup {"\t", "\n", "\r"}
ControlCode(c) ==
  IF c \notin ControlUnits THEN -1
  ELSE IF c = "\t" THEN 9
  ELSE IF c = "\n" THEN 10
  ELSE IF c = "\r" THEN 13
  ELSE (CHOOSE i \in 1..32 : ControlTokens[i] = c) - 1

\* The surrogate code units U+D800 to U+DBFF and U+DC00 to U+DFFF, and the
\* four hexadecimal digits of each in lower case.
SurrogateUnits(leads) ==
  {"U+D" \o HexChars[i] \o HexChars[j] \o HexChars[k] : i \in leads, j \in 1..16, k \in 1..16}
HighSurrogates == SurrogateUnits(9..12)
LowSurrogates == SurrogateUnits(13..16)
IsHighSurrogate(c) == c \in HighSurrogates
IsLowSurrogate(c) == c \in LowSurrogates
SurrogateHex(c) ==
  LET d == CHOOSE t \in (9..16) \X (1..16) \X (1..16) :
             c = "U+D" \o HexChars[t[1]] \o HexChars[t[2]] \o HexChars[t[3]]
  IN <<"d", LowerHex[d[1]], LowerHex[d[2]], LowerHex[d[3]]>>

\* QuoteJSONString, one code unit: the quote and the backslash take a
\* backslash, the code units below U+0020 their short escape or \u00xx, a
\* surrogate that is not part of a pair \udxxx.
EscapeUnit(c) ==
  IF c = "\"" \/ c = "\\" THEN <<"\\", c>>
  ELSE IF ControlCode(c) >= 0
  THEN LET code == ControlCode(c)
       IN IF code = 8 THEN <<"\\", "b">>
          ELSE IF code = 9 THEN <<"\\", "t">>
          ELSE IF code = 10 THEN <<"\\", "n">>
          ELSE IF code = 12 THEN <<"\\", "f">>
          ELSE IF code = 13 THEN <<"\\", "r">>
          ELSE <<"\\", "u", "0", "0", LowerHex[(code \div 16) + 1], LowerHex[(code % 16) + 1]>>
  ELSE IF IsHighSurrogate(c) \/ IsLowSurrogate(c) THEN <<"\\", "u">> \o SurrogateHex(c)
  ELSE <<c>>

\* The code units i to j of s quoted: a high surrogate followed by a low one
\* is a pair and stays as it is.
RECURSIVE QuoteUnits(_, _, _)
QuoteUnits(s, i, j) ==
  IF i > j THEN <<>>
  ELSE IF i = j
  THEN (IF \/ i < Len(s) /\ IsHighSurrogate(s[i]) /\ IsLowSurrogate(s[i + 1])
           \/ i > 1 /\ IsLowSurrogate(s[i]) /\ IsHighSurrogate(s[i - 1])
        THEN <<s[i]>> ELSE EscapeUnit(s[i]))
  ELSE QuoteUnits(s, i, (i + j) \div 2) \o QuoteUnits(s, ((i + j) \div 2) + 1, j)

\* JSON.stringify of a string.
JsonStringifyString(s) == <<"\"">> \o QuoteUnits(s, 1, Len(s)) \o <<"\"">>

\* The decimal text of a natural number (template literal `${n}`).
RECURSIVE NatToStr(_)
NatToStr(n) == IF n < 10 THEN <<DigitChars[n + 1]>>
               ELSE NatToStr(n \div 10) \o <<DigitChars[(n % 10) + 1]>>

\* The decimal text of an integer.
IntToStr(n) == IF n < 0 THEN <<"-">> \o NatToStr(0 - n) ELSE NatToStr(n)

\* parseInt of a string of digits.
RECURSIVE ParseDigits(_)
ParseDigits(ds) == IF ds = <<>> THEN 0
                   ELSE 10 * ParseDigits(SubSeq(ds, 1, Len(ds) - 1)) + DigitValue(ds[Len(ds)])

\* s.includes(sub)
Includes(s, sub) ==
  \E i \in 1..(Len(s) - Len(sub) + 1) : SubSeq(s, i, i + Len(sub) - 1) = sub

\* The longest run of digits of s that starts at position i.
RECURSIVE DigitRun(_, _)
DigitRun(s, i) == IF i <= Len(s) /\ IsDigit(s[i]) THEN <<s[i]>> \o DigitRun(s, i + 1)
                  ELSE <<>>

\* s.match(/HTTP (\d+)/)?.[1]: the digits captured by the leftmost match, or
\* the empty sequence when nothing matches.
MatchHttpStatus(s) ==
  LET hits == {i \in 1..Len(s) :
                 /\ i + Len(StrHttpSp) <= Len(s)
                 /\ SubSeq(s, i, i + Len(StrHttpSp) - 1) = StrHttpSp
                 /\ IsDigit(s[i + Len(StrHttpSp)])}
  IN IF hits = {} THEN <<>>
     ELSE LET first == CHOOSE i \in hits : \A j \in hits : i <= j
          IN DigitRun(s, first + Len(StrHttpSp))

\* JSON.stringify of a JSON-RPC error object {code, message}.
JsonStringifyError(e) ==
  StrJsonCode \o IntToStr(e.code) \o StrJsonMessage \o JsonStringifyString(e.message)
  \o StrJsonEnd

----------------------------------------------------------------------------
(* The errors an attempt can end with *)

\* fetch() rejects: TypeError: fetch failed
NetworkError == [kind |-> "network", type |-> "TypeError", status |-> 0,
                 message |-> StrFetchFailed]

\* sendJsonRpc: throw new Error(`MCP HTTP ${response.status}: ${text}`)
HttpError(status, text) ==
  [kind |-> "http", type |-> "Error", status |-> status,
   message |-> StrMcpHttp \o NatToStr(status) \o StrColonSp \o text]

\* The timer aborts the fetch: AbortError
TimeoutError == [kind |-> "timeout", type |-> "AbortError", status |-> 0,
                 message |-> StrAborted]

\* Variant: the message leaves the tool's name out.
ToolCallErrorUnnamed(name, e) ==
  [kind |-> "protocol", type |-> "Error", status |-> 0,
   message |-> StrToolsCallError \o StrParenColonSp \o JsonStringifyError(e)]

\* callTool: throw new Error(`MCP tools/call error (${name}): ${JSON.stringify(error)}`)
ToolCallError(name, e) ==
  [kind |-> "protocol", type |-> "Error", status |-> 0,
   message |-> StrToolsCallError \o name \o StrParenColonSp \o JsonStringifyError(e)]

\* acquire: throw new Error(`Daily rate limit reached (${maxPerDay})`)
QuotaError(maxPerDay) ==
  [kind |-> "quota", type |-> "Error", status |-> 0,
   message |-> StrDailyLimit \o NatToStr(maxPerDay) \o StrCloseParen]

\* Sample inputs: response bodies, tool names and JSON-RPC error objects.
BodyMockError == <<"M","o","c","k"," ","e","r","r","o","r">>
BodyFetchFailed == <<"u","p","s","t","r","e","a","m"," ","f","e","t","c","h"," ","f","a","i","l","e","d">>
MsgInvalidParams == <<"I","n","v","a","l","i","d"," ","p","a","r","a","m","s">>
MsgQuoted == <<"s","a","y"," ","\"","n","o","\"">>
MsgUpstream503 == <<"u","p","s","t","r","e","a","m"," ","H","T","T","P"," ","5","0","3">>
ToolGetContacts == <<"g","e","t","-","c","o","n","t","a","c","t","s">>

HttpStatusSamples == {401, 404, 429, 500, 503, 599}
RpcErrorSamples == {[code |-> 0 - 32602, message |-> MsgInvalidParams],
                    [code |-> 0 - 32000, message |-> MsgUpstream503],
                    [code |-> 0 - 32600, message |-> MsgQuoted]}

ErrorSamples ==
  {NetworkError, TimeoutError, QuotaError(DefaultMaxPerDay)}
  \cup {HttpError(st, BodyMockError) : st \in HttpStatusSamples}
  \cup {HttpError(404, BodyFetchFailed)}
  \cup {ToolCallError(ToolGetContacts, e) : e \in RpcErrorSamples}

SuccessValues == {"value1", "value2"}

\* The class of an error by where it was raised: a network-level failure,
\* HTTP 429 or HTTP 5xx.
IsTransient(e) ==
  \/ e.kind = "network"
  \/ e.kind = "http" /\ (e.status = 429 \/ (e.status >= 500 /\ e.status < 600))

----------------------------------------------------------------------------
(* withRetry *)

\* Variant: only HTTP 5xx is retried.
ShouldRetryNo429(err) ==
  \/ Includes(err.message, StrFetchFailed)
  \/ LET m == MatchHttpStatus(err.message)
     IN m # <<>> /\ ParseDigits(m) >= 500 /\ ParseDigits(m) < 600

\* withRetry: the default shouldRetry predicate.
ShouldRetry(err) ==
  \/ Includes(err.message, StrFetchFailed)
  \/ LET m == MatchHttpStatus(err.message)
     IN /\ m # <<>>
        /\ LET status == ParseDigits(m)
           IN status = 429 \/ (status >= 500 /\ status < 600)

\* Variant: the backoff grows linearly.
BackoffLinear(base, attempt) == base * attempt

\* withRetry: baseDelayMs * Math.pow(2, attempt)
BackoffBase(base, attempt) == base * (2 ^ attempt)

\* withRetry: Math.random() * baseDelayMs, in [0, base): its extremes in whole
\* milliseconds.
JitterSet(base) == {0, base - 1}

\* Variant: the wrapper gives up one attempt early.
AttemptsExhaustedEarly(attempt, maxRetries) == attempt + 1 >= maxRetries

\* withRetry: attempt === maxRetries
AttemptsExhausted(attempt, maxRetries) == attempt = maxRetries

\* withRetry: if (attempt === maxRetries || !shouldRetry(err)) throw err
GivesUp(attempt, maxRetries, err) ==
  AttemptsExhausted(attempt, maxRetries) \/ ~ShouldRetry(err)

RetryStart ==
  [pc |-> "calling", attempt |-> 0, calls |-> 0, ndelays |-> 0, lastDelay |-> 0,
   totalDelay |-> 0, nfails |-> 0, allTransient |-> TRUE, lastErr |-> "none",
   fnOut |-> "none", out |-> "none"]

\* An attempt: return await fn() succeeds.
RetryFnReturns ==
  /\ rt.pc = "calling"
  /\ \E v \in SuccessValues :
       rt' = [rt EXCEPT !.pc = "returned", !.calls = @ + 1, !.fnOut = v, !.out = v]
  /\ UNCHANGED nonRetryVars

\* An attempt: fn() rejects; the catch block rethrows or schedules the backoff.
RetryFnThrows ==
  /\ rt.pc = "calling"
  /\ \E err \in ErrorSamples :
       LET seen == [rt EXCEPT !.calls = @ + 1, !.nfails = @ + 1, !.lastErr = err,
                              !.fnOut = err,
                              !.allTransient = @ /\ IsTransient(err)]
       IN IF GivesUp(rt.attempt, OptMaxRetries, err)
          THEN rt' = [seen EXCEPT !.pc = "thrown", !.out = err]
          ELSE \E jitter \in JitterSet(OptBaseDelayMs) :
                 LET delay == BackoffBase(OptBaseDelayMs, rt.attempt) + jitter
                 IN rt' = [seen EXCEPT !.pc = "backoff", !.ndelays = @ + 1,
                                       !.lastDelay = delay,
                                       !.totalDelay = @ + delay]
  /\ UNCHANGED nonRetryVars

\* The backoff timer fires: the for loop goes on (attempt++), and would leave
\* through `throw lastError` once attempt > maxRetries.
RetryBackoffDone ==
  /\ rt.pc = "backoff"
  /\ rt' = IF rt.attempt + 1 <= OptMaxRetries
           THEN [rt EXCEPT !.pc = "calling", !.attempt = @ + 1]
           ELSE [rt EXCEPT !.pc = "thrown", !.attempt = @ + 1, !.out = rt.lastErr]
  /\ UNCHANGED nonRetryVars

RetryInit ==
  /\ LimiterStart
  /\ ClientOff
  /\ SseOff /\ XferOff /\ PeerOff /\ DerivedOff
  /\ rt = RetryStart

RetryNext == RetryFnReturns \/ RetryFnThrows \/ RetryBackoffDone

SpecRetry == RetryInit /\ [][RetryNext]_vars

----------------------------------------------------------------------------
(* The MCP client: sendJsonRpc and createMcpClient *)

StrInitializeError == <<"M","C","P"," ","i","n","i","t","i","a","l","i","z","e"," ","e","r","r","o","r",":"," ">>
StrToolsListError == <<"M","C","P"," ","t","o","o","l","s","/","l","i","s","t"," ","e","r","r","o","r",":"," ">>

Tasks == 1..NumTasks

Null == "null"
EmptyValue == "{}"
NoId == 0

\* No error object: `error` is absent from a response, or nothing was thrown.
NoRpcError == [code |-> 0, message |-> <<>>]
NoError == [kind |-> "none", type |-> "none", status |-> 0, message |-> <<>>]

\* A JSON-RPC result: absent (undefined), or an object with the fields the
\* client reads.
NoResult == [defined |-> FALSE, capabilities |-> Null, serverInfo |-> Null, content |-> Null]
EmptyObject == [defined |-> TRUE, capabilities |-> Null, serverInfo |-> Null, content |-> Null]
\* listTools: the fallback { tools: [] }
EmptyToolList == [defined |-> TRUE, capabilities |-> Null, serverInfo |-> Null,
                  content |-> "tools:[]"]

\* a || b
OrElse(a, b) == IF a # Null THEN a ELSE b

\* initialize: throw new Error(`MCP initialize error: ${JSON.stringify(error)}`)
InitializeError(e) ==
  [kind |-> "protocol", type |-> "Error", status |-> 0,
   message |-> StrInitializeError \o JsonStringifyError(e)]

\* listTools: throw new Error(`MCP tools/list error: ${JSON.stringify(error)}`)
ToolsListError(e) ==
  [kind |-> "protocol", type |-> "Error", status |-> 0,
   message |-> StrToolsListError \o JsonStringifyError(e)]

\* A JSON-RPC request as put on the wire: its method, its id (NoId for a
\* notification) and the Mcp-Session-Id header it carries (Null: none).
Request(method, id, session) == [method |-> method, id |-> id, session |-> session]

NoRequest == Request("none", NoId, Null)

\* What the server and the network can answer to one request.
SessionHeaderSamples == {Null, "s1", "s2"}
OkResult == [defined |-> TRUE, capabilities |-> "caps", serverInfo |-> "info",
             content |-> "content"]
NoBody == [error |-> NoRpcError, result |-> NoResult]
BodySamples ==
  {[error |-> NoRpcError, result |-> OkResult], NoBody}
  \cup {[error |-> [code |-> 0 - 32602, message |-> MsgQuoted], result |-> NoResult]}

ResponseSamples ==
  {[kind |-> "ok", status |-> 200, hdr |-> h, body |-> b, text |-> <<>>] :
      h \in SessionHeaderSamples, b \in BodySamples}
  \cup {[kind |-> "http", status |-> st, hdr |-> Null, body |-> NoBody, text |-> BodyMockError] :
      st \in {401, 503}}
  \cup {[kind |-> "network", status |-> 0, hdr |-> Null, body |-> NoBody, text |-> <<>>],
        [kind |-> "timeout", status |-> 0, hdr |-> Null, body |-> NoBody, text |-> <<>>]}

\* sendJsonRpc, from the arrival of the response (or of the failure) on: what
\* it throws or returns for a request sent with the given session id.
SendJsonRpc(resp, session) ==
  IF resp.kind = "network"
  THEN [threw |-> TRUE, err |-> NetworkError, result |-> NoBody, sessionId |-> Null]
  ELSE IF resp.kind = "timeout"
  THEN [threw |-> TRUE, err |-> TimeoutError, result |-> NoBody, sessionId |-> Null]
  ELSE IF resp.kind = "http"
  THEN [threw |-> TRUE, err |-> HttpError(resp.status, resp.text), result |-> NoBody,
        sessionId |-> Null]
  ELSE [threw |-> FALSE, err |-> NoError, result |-> resp.body,
        sessionId |-> OrElse(resp.hdr, session)]

\* Variant: the handshake is sent whether or not the client is initialized.
NeedsInitializeAlways(init) == TRUE

\* listTools / callTool: if (!initialized) await initialize()
NeedsInitialize(init) == ~init

TaskIdle ==
  [pc |-> "idle", kind |-> "none", phase |-> "none", req |-> NoRequest,
   attempt |-> 0, wakeAt |-> 0, abortAt |-> 0, hs |-> 0, hsId |-> NoId,
   startedReady |-> FALSE,
   err |-> NoError, result |-> NoResult]

Resting(p) == task[p].pc \in {"idle", "done", "failed"}

\* A new operation of the given kind on task p.
NewTask(kind, phase) ==
  [TaskIdle EXCEPT !.kind = kind, !.phase = phase, !.startedReady = initialized]

\* Variant: the counter is read without being incremented.
NextIdStale(id) == id

\* nextId(): ++_requestId
NextId(id) == id + 1

\* sendJsonRpc: setTimeout(() => controller.abort(), timeoutMs), for a request
\* handed to fetch at time t by a client created with the default timeout.
AbortDeadline(t) == t + DefaultTimeoutMs

\* The time at which sendJsonRpc settles: an answer of the server or a network
\* failure reaches the caller at the current time, a timeout is the abort
\* timer firing, which it never does before its deadline. A request that has
\* settled has no timer left (finally: clearTimeout(timer)): its deadline is 0.
SettledAt(tk, resp) ==
  IF resp.kind = "timeout" /\ tk.abortAt > now THEN tk.abortAt ELSE now

\* initialize(): the handshake request is built and handed to fetch at time t.
SendHandshake(p, tk, t) ==
  /\ task' = [task EXCEPT ![p] =
                [tk EXCEPT !.pc = "init_wait",
                           !.abortAt = AbortDeadline(t),
                           !.req = Request("initialize", NextId(requestId), Null),
                           !.hs = @ + 1,
                           !.hsId = NextId(requestId)]]
  /\ requestId' = NextId(requestId)
  /\ nsent' = nsent + 1
  /\ handshakes' = handshakes + 1
  /\ UNCHANGED <<sessionId, initialized, serverCapabilities, serverInfo>>

\* listTools / callTool: the tools/list or tools/call request is built with
\* the next id and the current session id, and handed to fetch at time t.
SendToolRequest(p, tk, t) ==
  /\ task' = [task EXCEPT ![p] =
                [tk EXCEPT !.pc = "req_wait",
                           !.abortAt = AbortDeadline(t),
                           !.req = Request(IF tk.kind = "listTools" THEN "tools/list"
                                           ELSE "tools/call",
                                           NextId(requestId), sessionId)]]
  /\ requestId' = NextId(requestId)
  /\ nsent' = nsent + 1
  /\ UNCHANGED <<sessionId, initialized, serverCapabilities, serverInfo, handshakes>>

\* listTools / callTool, from the call to the first request.
ToolEnter(p, tk) ==
  IF NeedsInitialize(initialized) THEN SendHandshake(p, tk, now)
  ELSE SendToolRequest(p, tk, now)

\* withRetry around callTool: the attempt's error, caught at time t, is
\* rethrown or a backoff timer is set.
RetryOrFail(p, tk, err, t) ==
  IF GivesUp(tk.attempt, DefaultMaxRetries, err)
  THEN task' = [task EXCEPT ![p] = [tk EXCEPT !.pc = "failed", !.err = err, !.req = NoRequest,
                                              !.abortAt = 0]]
  ELSE \E jitter \in JitterSet(DefaultBaseDelayMs) :
         task' = [task EXCEPT ![p] =
                    [tk EXCEPT !.pc = "backoff", !.err = err, !.req = NoRequest,
                               !.abortAt = 0,
                               !.wakeAt = t + BackoffBase(DefaultBaseDelayMs, tk.attempt)
                                              + jitter]]

\* An error leaves the client operation at time t: it rejects the operation,
\* unless the operation is a facade call running callTool under withRetry.
Throw(p, tk, err, t) ==
  IF tk.kind = "facade" /\ tk.phase = "call"
  THEN RetryOrFail(p, tk, err, t)
  ELSE task' = [task EXCEPT ![p] = [tk EXCEPT !.pc = "failed", !.err = err, !.req = NoRequest,
                                              !.abortAt = 0]]

\* client.initialize()
StartInitialize(p) ==
  /\ Resting(p)
  /\ nops < MaxOps
  /\ nops' = nops + 1
  /\ SendHandshake(p, NewTask("initialize", "none"), now)
  /\ ev' = [op |-> "initialize", p |-> p]

\* client.listTools()
StartListTools(p) ==
  /\ Resting(p)
  /\ nops < MaxOps
  /\ nops' = nops + 1
  /\ ToolEnter(p, NewTask("listTools", "none"))
  /\ ev' = [op |-> "listTools", p |-> p]

\* client.callTool(name, args)
StartCallTool(p) ==
  /\ Resting(p)
  /\ nops < MaxOps
  /\ nops' = nops + 1
  /\ ToolEnter(p, NewTask("callTool", "none"))
  /\ ev' = [op |-> "callTool", p |-> p]

\* initialize(), resumed by the handshake's response: the session id is taken
\* first, then a protocol-level error throws, else the client becomes
\* initialized and the notification is sent with the new session id.
HandshakeSettles(p, resp, next) ==
  LET tk == task[p]
      r == SendJsonRpc(resp, tk.req.session)
  IN IF r.threw
     THEN /\ next = "throw"
          /\ Throw(p, tk, r.err, SettledAt(tk, resp))
          /\ UNCHANGED <<sessionId, initialized, serverCapabilities, serverInfo,
                         requestId, nsent, handshakes>>
     ELSE /\ sessionId' = r.sessionId
          /\ IF r.result.error # NoRpcError
             THEN /\ next = "throw"
                  /\ Throw(p, tk, InitializeError(r.result.error), now)
                  /\ UNCHANGED <<initialized, serverCapabilities, serverInfo,
                                 requestId, nsent, handshakes>>
             ELSE /\ next = "notify"
                  /\ serverCapabilities' = OrElse(r.result.result.capabilities, EmptyValue)
                  /\ serverInfo' = OrElse(r.result.result.serverInfo, EmptyValue)
                  /\ initialized' = TRUE
                  /\ task' = [task EXCEPT ![p] =
                                [tk EXCEPT !.pc = "notif_wait",
                                           !.abortAt = AbortDeadline(now),
                                           !.req = Request("notifications/initialized",
                                                           NoId, r.sessionId)]]
                  /\ nsent' = nsent + 1
                  /\ UNCHANGED <<requestId, handshakes>>

\* The handshake fails: HTTP error, network failure, timeout (the abort
\* timer of the request has fired) or a protocol-level error in the response.
HandshakeFails(p) ==
  /\ task[p].pc = "init_wait"
  /\ \E resp \in ResponseSamples :
       /\ HandshakeSettles(p, resp, "throw")
       /\ now' = SettledAt(task[p], resp)
       /\ ev' = [op |-> "handshakeFailed", p |-> p, resp |-> resp]
  /\ nops' = nops
  /\ UNCHANGED limState

\* The handshake succeeds.
HandshakeSucceeds(p) ==
  /\ task[p].pc = "init_wait"
  /\ \E resp \in ResponseSamples :
       /\ HandshakeSettles(p, resp, "notify")
       /\ now' = SettledAt(task[p], resp)
       /\ ev' = [op |-> "handshakeDone", p |-> p, resp |-> resp]
  /\ nops' = nops
  /\ UNCHANGED limState

\* listTools / callTool, resumed by the response of the tools request or by
\* its failure (a timeout: the abort timer of the request has fired).
ToolSettles(p, resp) ==
  LET tk == task[p]
      r == SendJsonRpc(resp, tk.req.session)
  IN IF r.threw
     THEN /\ Throw(p, tk, r.err, SettledAt(tk, resp))
          /\ UNCHANGED sessionId
     ELSE /\ sessionId' = OrElse(r.sessionId, sessionId)
          /\ IF r.result.error # NoRpcError
             THEN Throw(p, tk,
                        IF tk.kind = "listTools"
                        THEN ToolsListError(r.result.error)
                        ELSE ToolCallError(ToolGetContacts, r.result.error),
                        now)
             ELSE task' = [task EXCEPT ![p] =
                             [tk EXCEPT !.pc = "done", !.req = NoRequest,
                                        !.abortAt = 0,
                                        !.result = IF r.result.result.defined
                                                   THEN r.result.result
                                                   ELSE IF tk.kind = "listTools"
                                                   THEN EmptyToolList
                                                   ELSE EmptyObject]]

ToolResponse(p) ==
  /\ task[p].pc = "req_wait"
  /\ \E resp \in ResponseSamples :
       /\ ToolSettles(p, resp)
       /\ now' = SettledAt(task[p], resp)
       /\ ev' = [op |-> "toolResponse", p |-> p, resp |-> resp]
  /\ UNCHANGED <<initialized, serverCapabilities, serverInfo, requestId, handshakes,
                 nsent, nops>>
  /\ UNCHANGED limState

\* The four variables of the client's closure.
ClientState ==
  [sessionId |-> sessionId, initialized |-> initialized,
   serverCapabilities |-> serverCapabilities, serverInfo |-> serverInfo]

\* Variant: close() keeps the session id.
CloseKeepsSession(c) ==
  [sessionId |-> c.sessionId, initialized |-> FALSE,
   serverCapabilities |-> Null, serverInfo |-> Null]

\* close(): the four assignments.
Closed(c) ==
  [sessionId |-> Null, initialized |-> FALSE,
   serverCapabilities |-> Null, serverInfo |-> Null]

\* close()
ClientClose ==
  /\ sessionId' = Closed(ClientState).sessionId
  /\ initialized' = Closed(ClientState).initialized
  /\ serverCapabilities' = Closed(ClientState).serverCapabilities
  /\ serverInfo' = Closed(ClientState).serverInfo
  /\ handshakes' = 0
  /\ ev' = [op |-> "close"]
  /\ UNCHANGED <<requestId, task, nsent, nops>>

\* createMcpClient(config)
ClientStart ==
  /\ sessionId = Null
  /\ initialized = FALSE
  /\ serverCapabilities = Null
  /\ serverInfo = Null
  /\ requestId = 0
  /\ task = [p \in Tasks |-> TaskIdle]
  /\ handshakes = 0
  /\ nsent = 0
  /\ nops = 0

\* Variant: a notification that fails makes initialize() throw.
NotifiedRethrows(p) ==
  /\ task[p].pc = "notif_wait"
  /\ ~(task[p].kind = "facade" /\ task[p].phase = "ensure")
  /\ \E resp \in ResponseSamples :
       /\ ev' = [op |-> "notified", p |-> p, kind |-> resp.kind]
       /\ now' = SettledAt(task[p], resp)
       /\ IF resp.kind # "ok"
          THEN /\ task' = [task EXCEPT ![p] =
                             [@ EXCEPT !.pc = "failed", !.req = NoRequest,
                                       !.abortAt = 0,
                                       !.err = SendJsonRpc(resp, sessionId).err]]
               /\ UNCHANGED <<sessionId, initialized, serverCapabilities, serverInfo,
                              requestId, handshakes, nsent>>
          ELSE IF task[p].kind = "initialize"
          THEN /\ task' = [task EXCEPT ![p] =
                             [@ EXCEPT !.pc = "done", !.req = NoRequest,
                                       !.abortAt = 0,
                                       !.result = [defined |-> TRUE,
                                                   capabilities |-> serverCapabilities,
                                                   serverInfo |-> serverInfo,
                                                   content |-> Null]]]
               /\ UNCHANGED <<sessionId, initialized, serverCapabilities, serverInfo,
                              requestId, handshakes, nsent>>
          ELSE SendToolRequest(p, task[p], now)
  /\ nops' = nops
  /\ UNCHANGED limState

\* initialize(), resumed when the notification settles (a timeout: when the
\* abort timer of the notification has fired): whatever the outcome (it is
\* caught), initialize() returns and its caller goes on.
Notified(p) ==
  /\ task[p].pc = "notif_wait"
  /\ ~(task[p].kind = "facade" /\ task[p].phase = "ensure")
  /\ \E resp \in ResponseSamples :
       /\ ev' = [op |-> "notified", p |-> p, kind |-> resp.kind]
       /\ now' = SettledAt(task[p], resp)
       /\ IF task[p].kind = "initialize"
          THEN /\ task' = [task EXCEPT ![p] =
                             [@ EXCEPT !.pc = "done", !.req = NoRequest,
                                       !.abortAt = 0,
                                       !.result = [defined |-> TRUE,
                                                   capabilities |-> serverCapabilities,
                                                   serverInfo |-> serverInfo,
                                                   content |-> Null]]]
               /\ UNCHANGED <<sessionId, initialized, serverCapabilities, serverInfo,
                              requestId, handshakes, nsent>>
          ELSE SendToolRequest(p, task[p], SettledAt(task[p], resp))
  /\ nops' = nops
  /\ UNCHANGED limState

----------------------------------------------------------------------------
(* The client used directly *)

AllResting == \A q \in Tasks : Resting(q)
SomeResting == \E q \in Tasks : Resting(q)

\* A new call runs as the lowest-numbered task that is not in flight.
FreeTask == CHOOSE p \in Tasks : Resting(p) /\ \A q \in Tasks : Resting(q) => p <= q

ClientInit ==
  LimiterStart /\ RetryOff /\ SseOff /\ XferOff /\ PeerOff /\ DerivedOff /\ ClientStart

ClientInitialize == \E p \in Tasks : StartInitialize(p) /\ UNCHANGED nonClientVars
ClientListTools == \E p \in Tasks : StartListTools(p) /\ UNCHANGED nonClientVars
ClientCallTool == \E p \in Tasks : StartCallTool(p) /\ UNCHANGED nonClientVars
ClientHandshakeFails == \E p \in Tasks : HandshakeFails(p) /\ UNCHANGED pureVars
ClientHandshakeSucceeds == \E p \in Tasks : HandshakeSucceeds(p) /\ UNCHANGED pureVars
ClientNotified == \E p \in Tasks : Notified(p) /\ UNCHANGED pureVars
ClientToolResponse == \E p \in Tasks : ToolResponse(p) /\ UNCHANGED pureVars
ClientCloses == ClientClose /\ UNCHANGED nonClientVars

\* Concurrent use, explored up to MaxClientSends requests.
ConcInitialize ==
  nsent < MaxClientSends /\ SomeResting /\ StartInitialize(FreeTask) /\ UNCHANGED nonClientVars
ConcListTools ==
  nsent < MaxClientSends /\ SomeResting /\ StartListTools(FreeTask) /\ UNCHANGED nonClientVars
ConcCallTool ==
  nsent < MaxClientSends /\ SomeResting /\ StartCallTool(FreeTask) /\ UNCHANGED nonClientVars
ConcHandshakeSucceeds == nsent < MaxClientSends /\ ClientHandshakeSucceeds
ConcNotified == nsent < MaxClientSends /\ ClientNotified

ClientNext ==
  \/ ConcInitialize \/ ConcListTools \/ ConcCallTool
  \/ ClientHandshakeFails \/ ConcHandshakeSucceeds \/ ConcNotified
  \/ ClientToolResponse \/ ClientCloses

\* Operations of one client running concurrently.
SpecClient == ClientInit /\ [][ClientNext]_vars

\* One operation of the client at a time: an operation (or close()) is called
\* only when no other operation of the client is in flight.
\* The calls are numbered round-robin: call n runs as task (n % NumTasks) + 1.
\* Calls are started until MaxClientSends requests have been sent.
SeqTask == (nops % NumTasks) + 1
SeqInitialize ==
  nsent < MaxClientSends /\ AllResting /\ StartInitialize(SeqTask) /\ UNCHANGED nonClientVars
SeqListTools ==
  nsent < MaxClientSends /\ AllResting /\ StartListTools(SeqTask) /\ UNCHANGED nonClientVars
SeqCallTool ==
  nsent < MaxClientSends /\ AllResting /\ StartCallTool(SeqTask) /\ UNCHANGED nonClientVars
SeqHandshakeFails == ClientHandshakeFails
SeqHandshakeSucceeds == ClientHandshakeSucceeds
SeqNotified == ClientNotified
SeqToolResponse == ClientToolResponse
SeqCloses == AllResting /\ ClientCloses

ClientSeqNext ==
  \/ SeqInitialize \/ SeqListTools \/ SeqCallTool
  \/ SeqHandshakeFails \/ SeqHandshakeSucceeds \/ SeqNotified
  \/ SeqToolResponse \/ SeqCloses

SpecClientSeq == ClientInit /\ [][ClientSeqNext]_vars

----------------------------------------------------------------------------
(* The action facade: createActions *)

\* Variant: the quota error is handed to withRetry, which backs off.
QuotaRetried(tk) ==
  [tk EXCEPT !.pc = "backoff", !.phase = "call", !.err = QuotaError(opts.maxPerDay),
             !.req = NoRequest, !.wakeAt = now + BackoffBase(DefaultBaseDelayMs, 0)]

\* call(): limiter.acquire() throws, and call() rejects with that error before
\* withRetry is entered.
QuotaRejects(tk) ==
  [tk EXCEPT !.pc = "failed", !.phase = "acquire", !.err = QuotaError(opts.maxPerDay),
             !.req = NoRequest]

\* call(toolName, args), entered at time t, up to `await limiter.acquire()`:
\* acquire() runs to
\* its first suspension or to its return. The quota error rejects the
\* operation; a full window leaves it waiting for the limiter's timer; an
\* admission leaves it waiting, with no request in flight, for the
\* continuation that invokes withRetry.
FacadeCall(p, tk, t) ==
  /\ AcquireEnter(p, t)
  /\ task' = [task EXCEPT ![p] =
                IF AcquireOutcome(t) = "quota" THEN QuotaRejects(tk)
                ELSE IF AcquireOutcome(t) = "sleep"
                THEN [tk EXCEPT !.pc = "acq_sleep", !.phase = "acquire", !.req = NoRequest]
                ELSE [tk EXCEPT !.pc = "admitted", !.phase = "acquire", !.req = NoRequest]]
  /\ UNCHANGED <<sessionId, initialized, serverCapabilities, serverInfo,
                 requestId, handshakes, nsent>>

\* A facade operation (searchContacts, getContactTasks, ...) is called:
\* ensureInitialized() sends the handshake if the client is not initialized;
\* if it is, ensureInitialized() returns at once and the operation is
\* suspended at `await ensureInitialized()`.
FacadeStart(p) ==
  /\ Resting(p)
  /\ nops < MaxOps
  /\ nops' = nops + 1
  /\ IF ~initialized
     THEN SendHandshake(p, NewTask("facade", "ensure"), now)
     ELSE /\ task' = [task EXCEPT ![p] = [NewTask("facade", "ensure") EXCEPT !.pc = "ensured"]]
          /\ UNCHANGED <<sessionId, initialized, serverCapabilities, serverInfo,
                         requestId, handshakes, nsent>>
  /\ ev' = [op |-> "ensureInitialized", p |-> p]
  /\ UNCHANGED limVars
  /\ UNCHANGED pureVars

\* `await ensureInitialized()` resumes (at once on an initialized client,
\* else when the notification has settled, which for a timeout is when its
\* abort timer has fired): call() is entered.
FacadeEnsured(p) ==
  /\ task[p].pc \in {"notif_wait", "ensured"}
  /\ task[p].kind = "facade" /\ task[p].phase = "ensure"
  /\ IF task[p].pc = "ensured"
     THEN FacadeCall(p, task[p], now)
     ELSE \E resp \in ResponseSamples :
            FacadeCall(p, [task[p] EXCEPT !.abortAt = 0], SettledAt(task[p], resp))
  /\ nops' = nops
  /\ UNCHANGED pureVars

\* The limiter's timer fires: acquire() counts the admission and returns.
FacadeWake(p) ==
  /\ task[p].pc = "acq_sleep"
  /\ AcquireWake(p)
  /\ task' = [task EXCEPT ![p] = [@ EXCEPT !.pc = "admitted"]]
  /\ UNCHANGED <<sessionId, initialized, serverCapabilities, serverInfo,
                 requestId, handshakes, nsent, nops>>
  /\ UNCHANGED pureVars

\* `await limiter.acquire()` resumes: withRetry invokes callTool, which runs
\* up to its first request.
FacadeInvoke(p) ==
  /\ task[p].pc = "admitted"
  /\ ToolEnter(p, [task[p] EXCEPT !.phase = "call", !.attempt = 0])
  /\ ev' = [op |-> "callTool", p |-> p]
  /\ nops' = nops
  /\ UNCHANGED nonClientVars

\* The backoff timer fires: withRetry invokes callTool again.
FacadeBackoffDone(p) ==
  /\ task[p].pc = "backoff"
  /\ now >= task[p].wakeAt
  /\ ToolEnter(p, [task[p] EXCEPT !.attempt = @ + 1])
  /\ ev' = [op |-> "retry", p |-> p]
  /\ nops' = nops
  /\ UNCHANGED nonClientVars

\* Time passes up to the deadline of a pending timer.
TimerTick ==
  /\ nticks < MaxTicks
  /\ \E p \in Tasks :
       \/ task[p].pc = "backoff" /\ task[p].wakeAt > now /\ now' = task[p].wakeAt
       \/ acq[p].pc = "sleeping" /\ acq[p].wakeAt > now /\ now' = acq[p].wakeAt
  /\ nticks' = nticks + 1
  /\ ev' = [op |-> "tick"]
  /\ UNCHANGED <<opts, windowStart, windowCount, dayStart, dayCount,
                 acq, winCalls, winAdmits, dayAdmits>>

\* What the limiter has counted when the run starts: nothing, a window with one
\* slot left, or such a window on a day with one admission left.
LimiterLoads ==
  {[window |-> 0, day |-> 0],
   [window |-> DefaultMaxPerWindow - 1, day |-> DefaultMaxPerWindow - 1],
   [window |-> DefaultMaxPerWindow - 1, day |-> DefaultMaxPerDay - 1]}

\* The time at which the limiter has counted `used`, the calls following each
\* other at once: a call that found its window full slept it out (acquire:
\* waitMs), which call 101, 201, ... did, and the window in use began at the
\* end of the last sleep; the day began at 0.
LoadedAt(used) ==
  IF used.day = 0 THEN 0
  ELSE ((used.day - 1) \div DefaultMaxPerWindow) * WaitMs(0, 0, DefaultWindowMs)

\* createActions(locationConfig): a client and a limiter with the default
\* options. The run starts on a new facade, or on one whose limiter has
\* counted `used` admissions; the client of the latter is still initialized
\* (one handshake, then `used.day` calls), or has been closed since.
FacadeCreated ==
  /\ \E used \in LimiterLoads : \E ready \in BOOLEAN :
       /\ ready => used.day > 0
       /\ windowCount = used.window
       /\ dayCount = used.day
       /\ winCalls = used.window
       /\ winAdmits = used.window
       /\ dayAdmits = used.day
       /\ requestId = IF used.day = 0 THEN 0 ELSE used.day + 1
       /\ sessionId = IF ready THEN "s1" ELSE Null
       /\ initialized = ready
       /\ serverCapabilities = IF ready THEN OkResult.capabilities ELSE Null
       /\ serverInfo = IF ready THEN OkResult.serverInfo ELSE Null
       /\ handshakes = IF ready THEN 1 ELSE 0
       /\ now = LoadedAt(used)
       /\ windowStart = LoadedAt(used)
  /\ nticks = 0
  /\ opts = [maxPerWindow |-> DefaultMaxPerWindow, windowMs |-> DefaultWindowMs,
             maxPerDay |-> DefaultMaxPerDay]
  /\ dayStart = 0
  /\ acq = [p \in Procs |-> Idle]
  /\ ev = [op |-> "init"]
  /\ RetryOff
  /\ SseOff /\ XferOff /\ DerivedOff
  /\ task = [p \in Tasks |-> TaskIdle]
  /\ nsent = 0
  /\ nops = 0

\* A process that holds one facade and no other client.
FacadeInit == FacadeCreated /\ PeerOff

FacadeOperation == nsent < MaxSends /\ SomeResting /\ FacadeStart(FreeTask)
FacadeEnsureDone == \E p \in Tasks : FacadeEnsured(p)
FacadeAcquired == \E p \in Tasks : FacadeWake(p)
FacadeCallsTool == nsent < MaxSends /\ \E p \in Tasks : FacadeInvoke(p)
FacadeHandshakeFails == \E p \in Tasks : HandshakeFails(p) /\ UNCHANGED pureVars
FacadeHandshakeSucceeds == nsent < MaxSends /\ \E p \in Tasks : HandshakeSucceeds(p) /\ UNCHANGED pureVars
FacadeToolResponse == \E p \in Tasks : ToolResponse(p) /\ UNCHANGED pureVars
FacadeRetries == nsent < MaxSends /\ \E p \in Tasks : FacadeBackoffDone(p)
FacadeTimerTick == TimerTick /\ UNCHANGED nonLimVars
\* close(), called as runAllChecks calls it: once the operations have settled.
FacadeCloses == AllResting /\ ClientClose /\ UNCHANGED nonClientVars

FacadeNext ==
  \/ FacadeOperation \/ FacadeEnsureDone \/ FacadeAcquired \/ FacadeCallsTool
  \/ FacadeHandshakeFails \/ FacadeHandshakeSucceeds
  \/ FacadeToolResponse \/ FacadeRetries
  \/ FacadeTimerTick \/ FacadeCloses

\* Facade operations running concurrently on one facade.
SpecFacade == FacadeInit /\ [][FacadeNext]_vars

----------------------------------------------------------------------------
(* Two clients in one process *)

\* The counter _requestId belongs to the module, not to a client: every client
\* of the process draws its ids from it. Beside the facade and its client the
\* process holds a second client, made by createMcpClient and driven as
\* cmdTest drives its own: initialize(), then listTools(), then close(); an
\* error on the way is caught and ends the process.

\* createMcpClient(config): the closure of the second client, no call made.
PeerCreated ==
  [pc |-> "created", req |-> NoRequest, abortAt |-> 0, ids |-> <<>>,
   sessionId |-> Null, initialized |-> FALSE, serverCapabilities |-> Null,
   serverInfo |-> Null, err |-> NoError]

\* What a step of the second client, taken at time t, leaves alone: the
\* limiter and the facade's client.
PeerStep(t, name) ==
  /\ now' = t
  /\ ev' = [op |-> name]
  /\ UNCHANGED limState
  /\ UNCHANGED <<sessionId, initialized, serverCapabilities, serverInfo, task,
                 handshakes, nsent, nops>>
  /\ UNCHANGED <<rt, sse, xfer, derivedVars>>

\* cmdTest: catch (err) { console.error(...); process.exit(1) }
PeerExits(c, err) == [c EXCEPT !.pc = "exited", !.req = NoRequest, !.err = err]

\* The second client's request of the given method, built with the next id
\* and handed to fetch at time t with the given session id.
PeerSends(c, method, session, t) ==
  [c EXCEPT !.req = Request(method, NextId(requestId), session),
            !.ids = Append(c.ids, NextId(requestId)),
            !.abortAt = AbortDeadline(t)]

\* What the server and the network answer to a request of the second client:
\* a result with a session id, a protocol-level error, nothing before the
\* abort timer fires.
PeerResponseSamples ==
  {resp \in ResponseSamples :
     \/ resp.kind = "timeout"
     \/ resp.kind = "ok" /\ resp.hdr = "s2" /\ resp.body.result = OkResult
     \/ resp.kind = "ok" /\ resp.hdr = Null /\ resp.body.error # NoRpcError}

\* cmdTest: await client.initialize(), up to the handshake request.
PeerInitialize ==
  /\ peer.pc = "created"
  /\ peer' = [PeerSends(peer, "initialize", Null, now) EXCEPT !.pc = "init_wait"]
  /\ requestId' = NextId(requestId)
  /\ PeerStep(now, "peerInitialize")

\* initialize() of the second client, resumed by the handshake's response:
\* the session id is taken first; an error ends the process; else the client
\* is initialized and sends the notification, which carries no id.
PeerAfterHandshake(c, r) ==
  IF r.threw THEN PeerExits(c, r.err)
  ELSE IF r.result.error # NoRpcError
  THEN PeerExits([c EXCEPT !.sessionId = r.sessionId], InitializeError(r.result.error))
  ELSE [c EXCEPT !.pc = "notif_wait",
                 !.sessionId = r.sessionId,
                 !.serverCapabilities = OrElse(r.result.result.capabilities, EmptyValue),
                 !.serverInfo = OrElse(r.result.result.serverInfo, EmptyValue),
                 !.initialized = TRUE,
                 !.abortAt = AbortDeadline(now),
                 !.req = Request("notifications/initialized", NoId, r.sessionId)]

PeerHandshakeSettles ==
  /\ peer.pc = "init_wait"
  /\ \E resp \in PeerResponseSamples :
       /\ peer' = PeerAfterHandshake(peer, SendJsonRpc(resp, peer.req.session))
       /\ PeerStep(SettledAt(peer, resp), "peerHandshake")
  /\ requestId' = requestId

\* The notification of the second client settles, whatever its outcome:
\* initialize() returns and cmdTest calls client.listTools(), which, the
\* client being initialized, sends the tools/list request.
PeerNotified ==
  /\ peer.pc = "notif_wait"
  /\ \E resp \in PeerResponseSamples :
       /\ peer' = [PeerSends(peer, "tools/list", peer.sessionId, SettledAt(peer, resp))
                     EXCEPT !.pc = "list_wait"]
       /\ PeerStep(SettledAt(peer, resp), "peerListTools")
  /\ requestId' = NextId(requestId)

\* cmdTest: await client.close(), the four assignments.
PeerClosed(c) ==
  [c EXCEPT !.pc = "closed", !.req = NoRequest,
            !.sessionId = Closed(c).sessionId,
            !.initialized = Closed(c).initialized,
            !.serverCapabilities = Closed(c).serverCapabilities,
            !.serverInfo = Closed(c).serverInfo]

\* listTools() of the second client, resumed by the response of its request:
\* an error ends the process; else the tools are listed and cmdTest closes
\* the client.
PeerAfterList(c, r) ==
  IF r.threw THEN PeerExits(c, r.err)
  ELSE IF r.result.error # NoRpcError
  THEN PeerExits([c EXCEPT !.sessionId = OrElse(r.sessionId, c.sessionId)],
                 ToolsListError(r.result.error))
  ELSE PeerClosed(c)

PeerListSettles ==
  /\ peer.pc = "list_wait"
  /\ \E resp \in PeerResponseSamples :
       /\ peer' = PeerAfterList(peer, SendJsonRpc(resp, peer.req.session))
       /\ PeerStep(SettledAt(peer, resp), "peerListed")
  /\ requestId' = requestId

\* The process is alive: process.exit has not been called.
ProcessRuns == peer.pc # "exited"

\* The process when the second client has been made: its facade has made
\* calls before.
ProcessInit == FacadeCreated /\ dayCount = DefaultMaxPerWindow - 1 /\ peer = PeerCreated

\* The steps of the facade, in a process that is alive: its operations are
\* called one at a time, each when the one before it has settled.
ProcessOperation == ProcessRuns /\ AllResting /\ FacadeOperation
ProcessEnsureDone == ProcessRuns /\ FacadeEnsureDone
ProcessAcquired == ProcessRuns /\ FacadeAcquired
ProcessCallsTool == ProcessRuns /\ FacadeCallsTool
ProcessHandshakeFails == ProcessRuns /\ FacadeHandshakeFails
ProcessHandshakeSucceeds == ProcessRuns /\ FacadeHandshakeSucceeds
ProcessToolResponse == ProcessRuns /\ FacadeToolResponse
ProcessRetries == ProcessRuns /\ FacadeRetries
ProcessTimerTick == ProcessRuns /\ FacadeTimerTick
ProcessCloses == ProcessRuns /\ FacadeCloses

ProcessNext ==
  \/ ProcessOperation \/ ProcessEnsureDone \/ ProcessAcquired \/ ProcessCallsTool
  \/ ProcessHandshakeFails \/ ProcessHandshakeSucceeds
  \/ ProcessToolResponse \/ ProcessRetries
  \/ ProcessTimerTick \/ ProcessCloses
  \/ PeerInitialize \/ PeerHandshakeSettles \/ PeerNotified \/ PeerListSettles

\* A facade and a second client in one process.
SpecProcess == ProcessInit /\ [][ProcessNext]_vars

----------------------------------------------------------------------------
(* sendJsonRpc on a text/event-stream response *)

\* The messages decoded from a stream: a response to some request (an id and
\* a body with a result or an error) or a notification (no id).
SseIdSamples == {NoId, 1, 2}
SseRequestIds == {1, 2}
SseMessages == [id : SseIdSamples, body : BodySamples]
SseStreams == UNION {[1..n -> SseMessages] : n \in 0..MaxMsgs}

\* {}
EmptyMessage == [id |-> NoId, body |-> NoBody]

\* Variant: the last message of the stream is taken, whatever its id.
CorrelateLast(messages, id) ==
  IF Len(messages) > 0 THEN messages[Len(messages)] ELSE EmptyMessage

\* messages.filter(m => m.id === request.id).pop() || messages.pop() || {}
Correlate(messages, id) ==
  LET matching == SelectSeq(messages, LAMBDA m : m.id = id)
  IN IF Len(matching) > 0 THEN matching[Len(matching)]
     ELSE IF Len(messages) > 0 THEN messages[Len(messages)]
     ELSE EmptyMessage

SseInit ==
  /\ LimiterStart
  /\ RetryOff
  /\ ClientOff
  /\ sse \in [pc : {"decoded"}, messages : SseStreams, id : SseRequestIds,
              out : {EmptyMessage}]
  /\ XferOff /\ PeerOff /\ DerivedOff

\* sendJsonRpc: the decoded messages are correlated with the request.
SseCorrelate ==
  /\ sse.pc = "decoded"
  /\ sse' = [sse EXCEPT !.pc = "returned", !.out = Correlate(sse.messages, sse.id)]
  /\ UNCHANGED nonSseVars

SseNext == SseCorrelate

\* One event-stream response and the request it answers.
SpecSse == SseInit /\ [][SseNext]_vars

----------------------------------------------------------------------------
(* sendJsonRpc: the timer of each request *)

XferIdle == [pc |-> "idle", attempt |-> 0, armed |-> FALSE, deadline |-> 0, prev |-> "none"]

\* sendJsonRpc: const timer = setTimeout(() => controller.abort(), timeoutMs)
TimerDeadline(t, timeoutMs) == t + timeoutMs

\* sendJsonRpc: finally { clearTimeout(timer) }, as the call returns or throws.
Settled(x, pc) == [x EXCEPT !.pc = pc, !.armed = FALSE]

\* Variant: one controller for the whole client; its abort() ends every
\* fetch in flight.
AbortAll(xs, p) ==
  [q \in DOMAIN xs |-> IF xs[q].pc = "fetching" THEN Settled(xs[q], "aborted") ELSE xs[q]]

\* The timer of caller p's request fires: controller.abort() of that call's
\* own AbortController; its fetch rejects and sendJsonRpc throws.
AbortOne(xs, p) == [xs EXCEPT ![p] = Settled(xs[p], "aborted")]

\* sendJsonRpc is called, for a first attempt or for the retry attempt that
\* follows a failed one: the timer is set and the request handed to fetch.
XferSend(p) ==
  /\ xfer[p].pc # "fetching"
  /\ xfer[p].pc = "idle" \/ xfer[p].attempt < MaxAttempts
  /\ xfer' = [xfer EXCEPT ![p] =
                [pc |-> "fetching",
                 attempt |-> IF xfer[p].pc = "idle" THEN 0 ELSE xfer[p].attempt + 1,
                 armed |-> TRUE,
                 deadline |-> TimerDeadline(now, OptTimeoutMs),
                 prev |-> xfer[p].pc]]
  /\ ev' = [op |-> "send", p |-> p]
  /\ UNCHANGED <<limVars, rt, sse, clientVars, peer, derivedVars>>

\* The response arrives and is read: sendJsonRpc returns.
XferReturns(p) ==
  /\ xfer[p].pc = "fetching"
  /\ xfer' = [xfer EXCEPT ![p] = Settled(xfer[p], "returned")]
  /\ ev' = [op |-> "returned", p |-> p]
  /\ UNCHANGED <<limVars, rt, sse, clientVars, peer, derivedVars>>

\* fetch rejects (network failure) or the status is not ok: sendJsonRpc throws.
XferThrows(p) ==
  /\ xfer[p].pc = "fetching"
  /\ xfer' = [xfer EXCEPT ![p] = Settled(xfer[p], "threw")]
  /\ ev' = [op |-> "threw", p |-> p]
  /\ UNCHANGED <<limVars, rt, sse, clientVars, peer, derivedVars>>

\* The timer of p's request fires.
XferTimerFires(p) ==
  /\ xfer[p].pc = "fetching"
  /\ xfer[p].armed
  /\ now >= xfer[p].deadline
  /\ xfer' = AbortOne(xfer, p)
  /\ ev' = [op |-> "timerFired", p |-> p]
  /\ UNCHANGED <<limVars, rt, sse, clientVars, peer, derivedVars>>

\* Time passes.
XferTick ==
  /\ nticks < MaxTicks
  /\ now' = now + 1
  /\ nticks' = nticks + 1
  /\ ev' = [op |-> "tick"]
  /\ UNCHANGED <<opts, windowStart, windowCount, dayStart, dayCount,
                 acq, winCalls, winAdmits, dayAdmits>>
  /\ UNCHANGED <<rt, sse, clientVars, xfer, peer, derivedVars>>

XferInit ==
  /\ LimiterStart
  /\ RetryOff
  /\ SseOff
  /\ ClientOff
  /\ DerivedOff
  /\ PeerOff
  /\ xfer = [p \in Tasks |-> XferIdle]

XferSends == \E p \in Tasks : XferSend(p)
XferResponse == \E p \in Tasks : XferReturns(p)
XferFailure == \E p \in Tasks : XferThrows(p)
XferTimeout == \E p \in Tasks : XferTimerFires(p)

XferNext == XferSends \/ XferResponse \/ XferFailure \/ XferTimeout \/ XferTick

\* Concurrent sendJsonRpc calls of one client, each with its retry attempts.
SpecXfer == XferInit /\ [][XferNext]_vars

----------------------------------------------------------------------------
(* Rate limiter properties *)

limiterState == <<windowStart, windowCount, dayStart, dayCount>>

\* C1 (SpecLimiterSeq): in sequential use, an acquire() that is at most the
\* maxPerWindow-th call of its window is admitted without suspending; the next
\* call of the window suspends with its timer set to the end of the window plus
\* the safety margin, and when it wakes the window has elapsed and it is
\* admitted as the first admission of a new window.
C1_SequentialWindow ==
  /\ (ev.op = "acquire" /\ ev.outcome # "quota") =>
       /\ ev.nth <= opts.maxPerWindow + 1
       /\ (ev.nth <= opts.maxPerWindow) => (ev.outcome = "admit" /\ acq[ev.p].pc = "idle")
       /\ (ev.nth = opts.maxPerWindow + 1) =>
            /\ ev.outcome = "sleep"
            /\ acq[ev.p].pc = "sleeping"
            /\ acq[ev.p].wakeAt = ev.ws + opts.windowMs + SafetyMarginMs
  /\ ev.op = "wake" =>
       /\ now - ev.ws >= opts.windowMs
       /\ acq[ev.p].pc = "idle"
       /\ windowCount = 1

\* C1 witness: the first maxPerWindow calls were admitted and the next one
\* slept, woke after the window and was admitted.
C1_Witness ==
  /\ ev.op = "wake"
  /\ ev.reset
  /\ dayCount = opts.maxPerWindow + 1
  /\ windowCount = 1

\* C2 (SpecLimiter): the short-window counter never exceeds maxPerWindow and
\* stats().windowRemaining is never negative, for every interleaving.
C2_WindowCapNeverExceeded ==
  /\ windowCount <= opts.maxPerWindow
  /\ ev.op = "stats" => ev.result.windowRemaining >= 0

\* C3 (SpecLimiter): no lost updates - each counter equals the number of
\* admissions made since its last reset.
C3_NoLostUpdates ==
  /\ windowCount = winAdmits
  /\ dayCount = dayAdmits

\* C3 witness: a suspended caller was admitted into a window that already
\* held an admission, with no reset in between.
C3_Witness ==
  /\ ev.op = "wake"
  /\ ~ev.reset
  /\ winAdmits >= 2
  /\ dayAdmits >= 3

\* C4 (SpecLimiter): acquire() called with the daily counter at or above its
\* cap, the day not elapsed, throws the quota error at once: the caller is not
\* suspended and the counters and window starts are unchanged.
C4_QuotaFailsFast ==
  [][\A p \in Procs :
       (/\ ev'.op = "acquire" /\ ev'.p = p
        /\ dayCount >= opts.maxPerDay
        /\ now - dayStart < DayMs)
       => (/\ ev'.outcome = "quota"
           /\ acq'[p].pc = "idle"
           /\ limiterState' = limiterState)]_vars

\* C4 witness: the quota error was raised while the short window was full too.
C4_Witness ==
  /\ ev.op = "acquire"
  /\ ev.outcome = "quota"
  /\ windowCount >= opts.maxPerWindow
  /\ now - windowStart < opts.windowMs

\* C5 as stated (SpecLimiter): stats() leaves both counters and both window
\* starts exactly as they were.
C5_StatsPure ==
  [][(ev'.op = "stats") => (limiterState' = limiterState)]_vars

\* C5 amended (SpecLimiter): stats() returns the remaining capacities and the
\* day's count after applying the due resets, and changes the limiter only
\* by those resets: a window (day) that has elapsed is restarted at the
\* current time with count 0, one that has not elapsed is left as it was.
C5_StatsResetsOnlyElapsed ==
  [][(ev'.op = "stats") =>
       /\ ev'.result = [windowRemaining |-> opts.maxPerWindow - windowCount',
                        dayRemaining |-> opts.maxPerDay - dayCount',
                        dayCount |-> dayCount']
       /\ IF now - windowStart >= opts.windowMs
          THEN windowStart' = now /\ windowCount' = 0
          ELSE windowStart' = windowStart /\ windowCount' = windowCount
       /\ IF now - dayStart >= DayMs
          THEN dayStart' = now /\ dayCount' = 0
          ELSE dayStart' = dayStart /\ dayCount' = dayCount]_vars

\* C5 witness: stats() was called after the window had elapsed with
\* admissions counted in it.
C5_Witness ==
  /\ ev.op = "stats"
  /\ ev.resetW
  /\ dayCount > 0
  /\ windowCount = 0

----------------------------------------------------------------------------
(* withRetry properties *)

\* C6 (SpecRetry): when the operation fails N times with transient errors and
\* then succeeds (N <= maxRetries), withRetry has invoked it N+1 times,
\* returns the value the operation returned and has waited N delays, the
\* delay after the k-th failure lying in [base*2^k, base*2^k + base); the
\* total delay is at least base*(2^N - 1). It does not give up before.
C6_SuccessAfterTransient ==
  /\ rt.ndelays >= 1 =>
       /\ rt.lastDelay >= OptBaseDelayMs * (2 ^ (rt.ndelays - 1))
       /\ rt.lastDelay < OptBaseDelayMs * (2 ^ (rt.ndelays - 1)) + OptBaseDelayMs
  /\ (rt.allTransient /\ rt.nfails <= OptMaxRetries) => rt.pc # "thrown"
  /\ (rt.pc = "returned" /\ rt.allTransient) =>
       /\ rt.calls = rt.nfails + 1
       /\ rt.out \in SuccessValues
       /\ rt.out = rt.fnOut
       /\ rt.ndelays = rt.nfails
       /\ rt.totalDelay >= OptBaseDelayMs * ((2 ^ rt.nfails) - 1)

\* C6 witness: success after maxRetries transient failures.
C6_Witness ==
  /\ rt.pc = "returned"
  /\ rt.allTransient
  /\ rt.nfails = OptMaxRetries
  /\ rt.ndelays = OptMaxRetries

\* C7 (SpecRetry): after a failed attempt a further attempt is made exactly
\* when attempts remain and the error is transient (network failure, HTTP
\* 429, HTTP 5xx); a first failure of any other class ends the call after
\* one invocation and no delay, re-raised.
C7_RetryIffTransient ==
  /\ (rt.pc \in {"backoff", "thrown"}) =>
       ((rt.pc = "backoff") <=> (rt.attempt < OptMaxRetries /\ IsTransient(rt.lastErr)))
  /\ (rt.nfails = 1 /\ rt.calls = 1 /\ ~IsTransient(rt.lastErr)) =>
       (rt.pc = "thrown" /\ rt.ndelays = 0 /\ rt.out = rt.lastErr)

\* C8 (SpecRetry): the operation is never invoked more than maxRetries+1
\* times; when every attempt failed with a transient error the call ends
\* after exactly maxRetries+1 invocations and maxRetries delays and raises
\* the last attempt's error unchanged.
C8_Exhaustion ==
  /\ rt.calls <= OptMaxRetries + 1
  /\ rt.ndelays <= OptMaxRetries
  /\ (rt.pc = "thrown" /\ rt.allTransient) =>
       /\ rt.calls = OptMaxRetries + 1
       /\ rt.ndelays = OptMaxRetries
       /\ rt.out = rt.lastErr
       /\ rt.out = rt.fnOut

\* C8 witness: all maxRetries+1 attempts failed with transient errors.
C8_Witness ==
  /\ rt.pc = "thrown"
  /\ rt.allTransient
  /\ rt.calls = OptMaxRetries + 1
  /\ IsTransient(rt.out)

----------------------------------------------------------------------------
(* Client and facade properties *)

ToolKinds == {"listTools", "callTool"}

\* C9 (SpecClientSeq): listTools() or callTool() invoked on a client that is
\* not initialized, with no other operation in flight, sends exactly one
\* initialize handshake and sends it before the tools/list or tools/call
\* request; invoked on an initialized client it sends no handshake; once the
\* tools request is out, and when its response has arrived, the client is
\* initialized.
C9_AutoInitialize ==
  \A p \in Tasks :
    LET tk == task[p] IN
    (tk.kind \in ToolKinds) =>
      /\ tk.startedReady => (tk.hs = 0 /\ tk.hsId = NoId)
      /\ ~tk.startedReady => (tk.hs = 1 /\ tk.hsId # NoId)
      /\ (tk.pc \in {"init_wait", "notif_wait"}) =>
           (tk.req.method \notin {"tools/list", "tools/call"})
      /\ (tk.pc = "req_wait") =>
           /\ tk.req.method = (IF tk.kind = "listTools" THEN "tools/list" ELSE "tools/call")
           /\ ~tk.startedReady => tk.hsId < tk.req.id
           /\ initialized
      /\ (ev.op = "toolResponse" /\ ev.p = p) => initialized

\* C9 witness: an initialize() succeeded, the client was closed, and a
\* callTool() started on the closed client has sent one handshake, then its
\* tools/call request, and returned with the client initialized.
C9_Witness ==
  \E p, q \in Tasks :
    /\ task[q].kind = "initialize" /\ task[q].pc = "done"
    /\ task[p].kind = "callTool" /\ task[p].pc = "done"
    /\ ~task[p].startedReady
    /\ task[p].hs = 1
    /\ ev.op = "toolResponse" /\ ev.p = p
    /\ initialized

\* C10 (SpecFacade): between creation (or the last close()) and the next
\* close(), the operations of one facade send at most one initialize
\* handshake request.
C10_SingleHandshake == handshakes <= 1

\* The handshake outcomes of C11: a non-success HTTP status, or a response
\* carrying a protocol-level error object.
HandshakeRejected(resp) ==
  \/ resp.kind = "http"
  \/ resp.kind = "ok" /\ resp.body.error # NoRpcError

\* C11 (SpecClientSeq): when the initialize request gets a non-success HTTP
\* status or a response with a protocol-level error object, initialize()
\* rejects with an error, no notifications/initialized request is sent, and
\* the client's initialized flag is false afterwards.
C11_FailedHandshake ==
  \A p \in Tasks :
    (/\ ev.op = "handshakeFailed" /\ ev.p = p
     /\ task[p].kind = "initialize"
     /\ HandshakeRejected(ev.resp)) =>
      /\ task[p].pc = "failed"
      /\ task[p].err # NoError
      /\ task[p].req.method # "notifications/initialized"
      /\ ~initialized

\* C12 (SpecClient): close(), from any state of the client (also with
\* operations in flight), leaves sessionId = null, initialized = false,
\* serverCapabilities = null and serverInfo = null, sends no request and
\* issues no request id; a close() that follows a close() changes nothing.
C12_CloseResets ==
  [][(ev'.op = "close") =>
       /\ ClientState' = [sessionId |-> Null, initialized |-> FALSE,
                          serverCapabilities |-> Null, serverInfo |-> Null]
       /\ nsent' = nsent
       /\ requestId' = requestId
       /\ task' = task
       /\ (ev.op = "close" => ClientState' = ClientState)]_vars

\* C12 witness: close() was called while an initialize handshake had just
\* made the client initialized (its notification still in flight), and the
\* client is reset.
C12_Witness ==
  /\ ev.op = "close"
  /\ \E p \in Tasks : task[p].pc = "notif_wait"
  /\ ClientState = [sessionId |-> Null, initialized |-> FALSE,
                    serverCapabilities |-> Null, serverInfo |-> Null]

\* The requests task p hands to fetch in a step: its request record changes
\* to a request.
Sends(p) == task'[p].req # task[p].req /\ task'[p].req.method # "none"

\* C13 (SpecClientSeq): when the client holds a session id, every request it
\* sends carries the Mcp-Session-Id header with the client's current session
\* id.
C13_SessionHeaderOnEveryRequest ==
  [][\A p \in Tasks :
       (Sends(p) /\ sessionId # Null) => task'[p].req.session = sessionId']_vars

\* C14 (SpecClientSeq): a successful handshake, tools/list or tools/call
\* response that carries no session header leaves a previously obtained
\* session id as it was before the response.
C14_MissingHeaderKeepsSession ==
  [][(/\ ev'.op \in {"handshakeDone", "toolResponse"}
      /\ ev'.resp.kind = "ok"
      /\ ev'.resp.body.error = NoRpcError
      /\ ev'.resp.hdr = Null
      /\ sessionId # Null) => sessionId' = sessionId]_vars

\* A fatal transport error: non-2xx HTTP status, network failure or timeout.
TransportFailure(resp) == resp.kind \in {"http", "network", "timeout"}

\* C15 (SpecClientSeq): when a tools request of an initialized client fails
\* with a fatal transport error, the client is left with sessionId = null and
\* initialized = false.
C15_TransportErrorInvalidates ==
  \A p \in Tasks :
    (/\ ev.op = "toolResponse" /\ ev.p = p
     /\ TransportFailure(ev.resp)
     /\ task[p].startedReady) =>
      (sessionId = Null /\ ~initialized)

\* The ids known to have been issued: those of the requests in flight, the
\* id of the last handshake of each task, and every id the second client has
\* drawn.
IssuedIds ==
  {task[q].req.id : q \in Tasks} \cup {task[q].hsId : q \in Tasks}
  \cup {peer.ids[i] : i \in 1..Len(peer.ids)}

\* The requests a step puts on the wire, by a task of the facade's client or
\* by the second client.
NewRequests ==
  {task'[p].req : p \in {q \in Tasks : Sends(q)}}
  \cup (IF peer'.req # peer.req /\ peer'.req.method # "none" THEN {peer'.req} ELSE {})

\* C16 (SpecProcess): in a process that holds a facade and a second client,
\* every request that expects a response (initialize, tools/list and
\* tools/call, each retry attempt of a call included, whichever of the two
\* clients sends it) carries an id greater than the counter's value before
\* it, which is the greatest id issued so far in the process, and so greater
\* than every id issued before it by either client: no two requests of the
\* process share an id. The counter never decreases, close() included; the
\* notifications/initialized message of either client carries no id.
C16_RequestIds ==
  [][/\ requestId' >= requestId
     /\ \A i \in IssuedIds : i <= requestId
     /\ \A r \in NewRequests :
          IF r.method = "notifications/initialized"
          THEN r.id = NoId /\ requestId' = requestId
          ELSE /\ r.method \in {"initialize", "tools/list", "tools/call"}
               /\ r.id > requestId
               /\ r.id = requestId'
               /\ \A i \in IssuedIds : i < r.id]_vars

\* C16 witness: a retry attempt of a facade call has just been sent with the
\* latest id, while the tools/list request of the second client, which
\* carries a smaller id, itself greater than the id of that client's
\* handshake, is still in flight.
C16_Witness ==
  \E p \in Tasks :
    /\ ev.op = "retry" /\ ev.p = p
    /\ task[p].kind = "facade" /\ task[p].pc = "req_wait"
    /\ task[p].attempt >= 1
    /\ task[p].req.method = "tools/call"
    /\ task[p].req.id = requestId
    /\ peer.pc = "list_wait" /\ peer.req.method = "tools/list"
    /\ Len(peer.ids) = 2
    /\ peer.ids[1] < peer.ids[2]
    /\ peer.req.id = peer.ids[2]
    /\ peer.req.id < task[p].req.id

\* The positions of the stream's messages that carry the request's id.
MatchingAt(messages, id) == {i \in 1..Len(messages) : messages[i].id = id}

\* C17 (SpecSse): the message taken as the response is the last message of
\* the stream whose id equals the request's id; when no message has that id
\* it is the last message of the stream, whatever id it carries (if any);
\* when the stream has no message it is the empty object. So a message that
\* follows the last matching one never replaces it.
C17_Correlation ==
  (sse.pc = "returned") =>
    LET ms == sse.messages
        at == MatchingAt(ms, sse.id)
    IN /\ (at # {}) =>
            \E i \in at : /\ \A j \in at : j <= i
                          /\ sse.out = ms[i]
       /\ (at = {} /\ Len(ms) > 0) => sse.out = ms[Len(ms)]
       /\ (Len(ms) = 0) => sse.out = EmptyMessage
       /\ (at # {}) => sse.out.id = sse.id

\* C17 witness: the stream holds two messages with the request's id and then
\* a notification; the second of the two is returned.
C17_Witness ==
  /\ sse.pc = "returned"
  /\ Len(sse.messages) = 3
  /\ sse.messages[1].id = sse.id
  /\ sse.messages[2].id = sse.id
  /\ sse.messages[1] # sse.messages[2]
  /\ sse.messages[3].id = NoId
  /\ sse.out = sse.messages[2]

\* C18 (SpecClientSeq): when the tools request got an HTTP 200 response,
\* callTool / listTools rejects exactly when the response carries a JSON-RPC
\* error object; callTool's rejection message contains the tool's name;
\* otherwise the call returns the response's result, or, when the response
\* has no result, an empty object (callTool) or an empty tool list
\* (listTools).
C18_RejectsIffProtocolError ==
  \A p \in Tasks :
    (/\ ev.op = "toolResponse" /\ ev.p = p
     /\ ev.resp.kind = "ok"
     /\ task[p].kind \in ToolKinds) =>
      LET tk == task[p]
          body == ev.resp.body
      IN /\ tk.pc \in {"done", "failed"}
         /\ (tk.pc = "failed") <=> (body.error # NoRpcError)
         /\ (tk.pc = "failed") =>
              /\ tk.err.kind = "protocol"
              /\ Includes(tk.err.message, JsonStringifyError(body.error))
              /\ (tk.kind = "callTool") => Includes(tk.err.message, ToolGetContacts)
         /\ (tk.pc = "done" /\ body.result.defined) => tk.result = body.result
         /\ (tk.pc = "done" /\ ~body.result.defined) =>
              tk.result = (IF tk.kind = "callTool" THEN EmptyObject ELSE EmptyToolList)

\* C18 witness: on a client initialized by initialize(), a callTool() whose
\* response carried an error object was rejected with a message naming the
\* tool.
C18_Witness ==
  \E p, q \in Tasks :
    /\ task[q].kind = "initialize" /\ task[q].pc = "done"
    /\ ev.op = "toolResponse" /\ ev.p = p /\ ev.resp.kind = "ok"
    /\ ev.resp.body.error # NoRpcError
    /\ task[p].kind = "callTool" /\ task[p].pc = "failed"
    /\ task[p].startedReady
    /\ Includes(task[p].err.message, ToolGetContacts)

\* C19 (SpecXfer): each request, a retry attempt included, starts its own
\* timer with the full timeout when it is sent; the timer is cancelled when
\* the request settles; a request is aborted only by its own timer, once its
\* timeout has elapsed; and a timer that fires leaves every other request as
\* it is.
C19_PerAttemptTimeout ==
  [][\A p \in Tasks :
       /\ (xfer'[p].pc = "fetching" /\ xfer[p].pc # "fetching") =>
            /\ xfer'[p].armed
            /\ xfer'[p].deadline = now + OptTimeoutMs
       /\ (xfer'[p].pc # "fetching") => ~xfer'[p].armed
       /\ (xfer'[p].pc = "aborted" /\ xfer[p].pc = "fetching") =>
            /\ ev'.op = "timerFired" /\ ev'.p = p
            /\ now >= xfer[p].deadline
       /\ (ev'.op = "timerFired" /\ ev'.p # p) => xfer'[p] = xfer[p]]_vars

\* C19 witness: the timer of p's request has just fired and aborted it, while
\* q's request, the retry attempt that followed an aborted first attempt, is
\* still in flight with time left on its own timer.
C19_Witness ==
  \E p, q \in Tasks :
    /\ p # q
    /\ ev.op = "timerFired" /\ ev.p = p
    /\ xfer[p].pc = "aborted" /\ ~xfer[p].armed
    /\ xfer[q].pc = "fetching" /\ xfer[q].armed
    /\ xfer[q].attempt = 1 /\ xfer[q].prev = "aborted"
    /\ xfer[q].deadline > now

\* C20 (SpecFacade): every request the facade's client sends is preceded by
\* its own admission by the limiter: at every moment the requests sent are
\* at most the admissions the limiter has counted.
C20_AcquireBeforeEveryRequest == nsent <= dayAdmits

----------------------------------------------------------------------------
(* parseSSEResponse: an event-stream body decoded into messages *)

StrDataPrefix == <<"d","a","t","a",":"," ">>
StrNewline == <<"\n">>

\* Everything but the limiter, the retry wrapper and the client is at rest.
CoreOff == LimiterStart /\ RetryOff /\ ClientOff /\ SseOff /\ XferOff /\ PeerOff

\* line.startsWith(prefix)
StartsWith(s, prefix) ==
  Len(s) >= Len(prefix) /\ SubSeq(s, 1, Len(prefix)) = prefix

\* s.slice(n)
Slice(s, n) == SubSeq(s, n + 1, Len(s))

\* s.split('\n'): the pieces between the newlines, at least one piece.
RECURSIVE SplitLines(_)
SplitLines(s) ==
  LET nl == {i \in 1..Len(s) : s[i] = StrNewline[1]}
  IN IF nl = {} THEN <<s>>
     ELSE LET i == CHOOSE k \in nl : \A j \in nl : k <= j
          IN <<SubSeq(s, 1, i - 1)>> \o SplitLines(Slice(s, i))

\* JSON.parse(text). A JSON value is held as a record: its type ("null",
\* "true", "false", "number", "string", "array", "object"), for a number the
\* double as mant and exp (the value is mant * 2^exp, mant being the decimal
\* text of an odd integer; see NumberValue), for a string its characters
\* in text, for an array its elements in items, for an object its
\* members [key, value] in items, in the order of Object.keys.
JsonBlank == [type |-> "none", mant |-> <<>>, exp |-> 0, text |-> <<>>, items |-> <<>>]
JsonNull == [JsonBlank EXCEPT !.type = "null"]
JsonBool(b) == [JsonBlank EXCEPT !.type = IF b THEN "true" ELSE "false"]
JsonNumber(m, e) == [JsonBlank EXCEPT !.type = "number", !.mant = m, !.exp = e]
JsonString(chars) == [JsonBlank EXCEPT !.type = "string", !.text = chars]
JsonArray(items) == [JsonBlank EXCEPT !.type = "array", !.items = items]
JsonObject(members) == [JsonBlank EXCEPT !.type = "object", !.items = members]

\* A parse that failed (JSON.parse throws a SyntaxError).
JsonFail == [ok |-> FALSE, value |-> JsonBlank, next |-> 0]

\* The character a \uXXXX escape stands for: the character itself for the
\* printable ASCII range and for tab, line feed and carriage return; any
\* other code unit is written U+XXXX.
CodeUnit(h) ==
  LET code == 4096 * HexValue(h[1]) + 256 * HexValue(h[2]) + 16 * HexValue(h[3])
              + HexValue(h[4])
  IN IF code >= 32 /\ code <= 126 THEN Ascii[code - 31]
     ELSE IF code = 9 THEN "\t"
     ELSE IF code = 10 THEN "\n"
     ELSE IF code = 13 THEN "\r"
     ELSE "U+" \o HexChars[HexValue(h[1]) + 1] \o HexChars[HexValue(h[2]) + 1]
               \o HexChars[HexValue(h[3]) + 1] \o HexChars[HexValue(h[4]) + 1]

\* The character a two-character escape stands for.
Unescape(c) ==
  CASE c = "n" -> "\n"
    [] c = "t" -> "\t"
    [] c = "r" -> "\r"
    [] c = "b" -> "U+0008"
    [] c = "f" -> "U+000C"
    [] OTHER -> c

JsonWhitespace == {" ", "\t", "\n", "\r"}

\* The first position from i on that holds no blank (one past the end if none).
SkipWhitespace(s, i) ==
  IF i > Len(s) \/ s[i] \notin JsonWhitespace THEN i
  ELSE LET others == {k \in i..Len(s) : s[k] \notin JsonWhitespace}
       IN IF others = {} THEN Len(s) + 1
          ELSE CHOOSE k \in others : \A m \in others : k <= m

\* Natural numbers of any size: their digits to the base 10^9, the least
\* significant first and no zero at the top (zero is the empty sequence).
LimbBase == 1000 * 1000 * 1000
LimbDigits == Len(NatToStr(LimbBase)) - 1   \* decimal digits of one digit to that base

RECURSIVE TenTo(_)
TenTo(k) == IF k = 0 THEN 1 ELSE 10 * TenTo(k - 1)

Trimmed(a) ==
  LET top == {i \in 1..Len(a) : a[i] # 0}
  IN IF top = {} THEN <<>> ELSE SubSeq(a, 1, CHOOSE i \in top : \A j \in top : j <= i)

BigOfDigits(chars) ==
  LET n == Len(chars)
      low(i) == IF n - LimbDigits * i + 1 > 1 THEN n - LimbDigits * i + 1 ELSE 1
  IN Trimmed([i \in 1..((n + LimbDigits - 1) \div LimbDigits) |->
                ParseDigits(SubSeq(chars, low(i), n - LimbDigits * (i - 1)))])

\* The number of decimal digits of a.
DecLen(a) == IF a = <<>> THEN 0 ELSE LimbDigits * (Len(a) - 1) + Len(NatToStr(a[Len(a)]))

BigToDigits(a) ==
  IF a = <<>> THEN <<"0">>
  ELSE LET n == DecLen(a)
       IN [p \in 1..n |->
             DigitChars[((a[((n - p) \div LimbDigits) + 1] \div TenTo((n - p) % LimbDigits)) % 10) + 1]]

BigLess(a, b) ==
  \/ Len(a) < Len(b)
  \/ /\ Len(a) = Len(b)
     /\ \E i \in 1..Len(a) : a[i] < b[i] /\ \A j \in (i + 1)..Len(a) : a[j] = b[j]

\* 2 * a + bit: a digit carries over exactly when it is at least half the base.
DoubledPlus(a, bit) ==
  LET n == Len(a)
      half == LimbBase \div 2
  IN IF n = 0 THEN (IF bit = 0 THEN <<>> ELSE <<bit>>)
     ELSE [i \in 1..(IF a[n] >= half THEN n + 1 ELSE n) |->
             ((IF i <= n THEN 2 * a[i] ELSE 0)
              + (IF i = 1 THEN bit ELSE IF a[i - 1] >= half THEN 1 ELSE 0)) % LimbBase]
Double(a) == DoubledPlus(a, 0)

\* a * 2^k. The halves of the work are done one after the other.
RECURSIVE Doubled(_, _)
Doubled(a, k) ==
  IF k = 0 THEN a
  ELSE IF k = 1 THEN Double(a)
  ELSE LET h == Doubled(a, k \div 2)
       IN IF Len(h) >= 0 THEN Doubled(h, k - (k \div 2)) ELSE h

\* a - b for a >= b: the digit i borrows when, below it, the nearest digit in
\* which a and b differ is the smaller one in a.
BigMinus(a, b) ==
  LET bd(i) == IF i <= Len(b) THEN b[i] ELSE 0
      borrow(i) == \E j \in 1..(i - 1) : a[j] < bd(j) /\ \A l \in (j + 1)..(i - 1) : a[l] = bd(l)
  IN Trimmed([i \in 1..Len(a) |->
                (a[i] - bd(i) - (IF borrow(i) THEN 1 ELSE 0) + LimbBase) % LimbBase])

MinBinaryExponent == 0 - 1074   \* the least binary exponent of a double

\* At least k binary digits for k decimal ones: 3.3219 < log2(10).
BinaryDigits(k) == IF k > 0 THEN (k * 33219) \div 10000 ELSE 0

\* The binary exponent q for which n / d * 2^-q has 53 binary digits (fewer,
\* when q is the least exponent): n and t == d * 2^52 scaled by 2^q, the
\* larger part of q estimated from the lengths and the rest looked for.
AlignedDown(n, t1, k0) ==
  LET k == CHOOSE j \in 0..12 : ~BigLess(n, Doubled(t1, j)) /\ BigLess(n, Doubled(t1, j + 1))
  IN [n |-> n, t |-> Doubled(t1, k), q |-> k0 + k]
AlignedUp(n1, t, k0) ==
  LET enough == {j \in 0..12 : k0 + j = 0 - MinBinaryExponent \/ ~BigLess(Doubled(n1, j), t)}
      k == CHOOSE j \in enough : \A i \in enough : j <= i
  IN [n |-> Doubled(n1, k), t |-> t, q |-> 0 - (k0 + k)]
AlignedBy(n, t, down, k0) ==
  IF down THEN AlignedDown(n, Doubled(t, k0), k0) ELSE AlignedUp(Doubled(n, k0), t, k0)
AlignedTo(n, t, down) ==
  AlignedBy(n, t, down,
            IF down THEN BinaryDigits(DecLen(n) - DecLen(t) - 1)
            ELSE IF BinaryDigits(DecLen(t) - DecLen(n) - 1) > 0 - MinBinaryExponent
            THEN 0 - MinBinaryExponent
            ELSE BinaryDigits(DecLen(t) - DecLen(n) - 1))
AlignedWith(n, t) == AlignedTo(n, t, ~BigLess(n, t))
Aligned(n, d) == AlignedWith(n, Doubled(d, 52))

\* One more binary digit of the quotient st.n / t.
QuotientStep(st, t) ==
  LET one == ~BigLess(st.n, t)
  IN [n |-> Double(IF one THEN BigMinus(st.n, t) ELSE st.n),
      bits |-> Append(st.bits, IF one THEN 1 ELSE 0)]

\* k more binary digits.
RECURSIVE QuotientSteps(_, _, _)
QuotientSteps(st, t, k) ==
  IF k = 1 THEN QuotientStep(st, t)
  ELSE LET h == QuotientSteps(st, t, k \div 2)
       IN IF Len(h.bits) > 0 THEN QuotientSteps(h, t, k - (k \div 2)) ELSE h

\* bits + 1
Incremented(bits) ==
  LET zeros == {i \in 1..Len(bits) : bits[i] = 0}
  IN IF zeros = {} THEN <<1>> \o [i \in 1..Len(bits) |-> 0]
     ELSE LET last == CHOOSE i \in zeros : \A j \in zeros : j <= i
          IN [i \in 1..Len(bits) |-> IF i < last THEN bits[i] ELSE IF i = last THEN 1 ELSE 0]

\* acc followed by the binary digits bits[i..j].
RECURSIVE BigOfBits(_, _, _, _)
BigOfBits(acc, bits, i, j) ==
  IF i = j THEN DoubledPlus(acc, bits[i])
  ELSE LET m == (i + j) \div 2
           h == BigOfBits(acc, bits, i, m)
       IN IF Len(h) >= 0 THEN BigOfBits(h, bits, m + 1, j) ELSE h

\* A number value: mant is the decimal text of an odd integer (with its sign)
\* and the value is mant * 2^exp; zero is 0 or -0 with exp 0, and a value
\* too large for a double is Infinity or -Infinity.
SignedText(neg, chars) == IF neg THEN <<"-">> \o chars ELSE chars
JsonZero(neg) == JsonNumber(SignedText(neg, <<"0">>), 0)
JsonInfinity(neg) == JsonNumber(SignedText(neg, <<"I", "n", "f", "i", "n", "i", "t", "y">>), 0)

\* The double nearest to n / d (ties to the even one), n and d positive: 53
\* binary digits of the quotient, one more when the rest is above the half or
\* is the half after an odd digit, and the odd part of what they denote.
DoubleOf(neg, q, bits) ==
  LET ones == {i \in 1..Len(bits) : bits[i] = 1}
      first == CHOOSE i \in ones : \A j \in ones : i <= j
      last == CHOOSE i \in ones : \A j \in ones : j <= i
  IN IF ones = {} THEN JsonZero(neg)
     ELSE IF (Len(bits) - first + 1) + q > 1024 THEN JsonInfinity(neg)   \* a double is below 2^1024
     ELSE JsonNumber(SignedText(neg, BigToDigits(BigOfBits(<<>>, bits, first, last))),
                     q + (Len(bits) - last))
RoundedBits(neg, q, t, qs) ==
  DoubleOf(neg, q, IF BigLess(t, qs.n) \/ (qs.n = t /\ qs.bits[53] = 1)
                   THEN Incremented(qs.bits) ELSE qs.bits)
RoundedAligned(neg, al) ==
  RoundedBits(neg, al.q, al.t, QuotientSteps([n |-> al.n, bits |-> <<>>], al.t, 53))
RoundedQuotient(neg, n, d) == RoundedAligned(neg, Aligned(n, d))

\* v = odd * 2^k for a positive integer v
RECURSIVE OddPart(_, _)
OddPart(v, k) == IF v % 2 = 0 THEN OddPart(v \div 2, k + 1) ELSE [odd |-> v, exp |-> k]

\* The Number value of the decimal digits * 10^e: the nearest double. sig is
\* the digits without the zeros around them, ten their power of ten.
SignificantValue(neg, sig, ten) ==
  IF Len(sig) + ten >= 310 THEN JsonInfinity(neg)
  ELSE IF Len(sig) + ten <= 0 - 324 THEN JsonZero(neg)
  ELSE IF ten >= 0 /\ Len(sig) + ten <= 9
  THEN LET parts == OddPart(ParseDigits(sig) * TenTo(ten), 0)
       IN JsonNumber(SignedText(neg, NatToStr(parts.odd)), parts.exp)
  ELSE RoundedQuotient(neg,
                       BigOfDigits(sig \o [i \in 1..(IF ten > 0 THEN ten ELSE 0) |-> "0"]),
                       BigOfDigits(<<"1">> \o [i \in 1..(IF ten < 0 THEN 0 - ten ELSE 0) |-> "0"]))
NumberValue(neg, digits, e) ==
  LET used == {i \in 1..Len(digits) : digits[i] # "0"}
      first == CHOOSE i \in used : \A j \in used : i <= j
      last == CHOOSE i \in used : \A j \in used : j <= i
  IN IF used = {} THEN JsonZero(neg)
     ELSE SignificantValue(neg, SubSeq(digits, first, last), e + (Len(digits) - last))

\* The value of the digits of an exponent; 1000000 stands for any larger one.
ExponentValue(digits) ==
  LET used == {i \in 1..Len(digits) : digits[i] # "0"}
      first == CHOOSE i \in used : \A j \in used : i <= j
  IN IF used = {} THEN 0
     ELSE IF Len(digits) - first + 1 > 6 THEN 1000000
     ELSE ParseDigits(SubSeq(digits, first, Len(digits)))

\* A number literal at position i: -? (0 | [1-9][0-9]*) (.[0-9]+)? ([eE][+-]?[0-9]+)?
\* int are the digits before the point, frac those after it (from position f
\* on), digits those of the exponent (from position d on).
NumberWithExponent(neg, int, frac, down, digits, d) ==
  IF \/ int = <<>>
     \/ (Len(int) > 1 /\ int[1] = "0")
     \/ (frac.has /\ frac.digits = <<>>)
     \/ (digits.has /\ digits.digits = <<>>)
  THEN JsonFail
  ELSE [ok |-> TRUE,
        value |-> NumberValue(neg, int \o frac.digits,
                              (IF down THEN 0 - ExponentValue(digits.digits)
                               ELSE ExponentValue(digits.digits)) - Len(frac.digits)),
        next |-> d + Len(digits.digits)]
DigitsFrom(s, has, from) ==
  [has |-> has, digits |-> IF has THEN DigitRun(s, from) ELSE <<>>]
NumberSigned(s, neg, int, frac, c, hasExp, signed) ==
  NumberWithExponent(neg, int, frac, signed /\ s[c + 1] = "-",
                     DigitsFrom(s, hasExp, IF signed THEN c + 2 ELSE c + 1),
                     IF hasExp THEN (IF signed THEN c + 2 ELSE c + 1) ELSE c)
NumberWithFraction(s, neg, int, frac, c) ==
  NumberSigned(s, neg, int, frac, c, c <= Len(s) /\ s[c] \in {"e", "E"},
               c <= Len(s) /\ s[c] \in {"e", "E"} /\ c + 1 <= Len(s) /\ s[c + 1] \in {"+", "-"})
NumberFraction(s, neg, int, b, frac) ==
  NumberWithFraction(s, neg, int, frac, IF frac.has THEN b + 1 + Len(frac.digits) ELSE b)
NumberWithInt(s, neg, int, b) ==
  NumberFraction(s, neg, int, b, DigitsFrom(s, b <= Len(s) /\ s[b] = ".", b + 1))
NumberFrom(s, neg, a) == NumberWithInt(s, neg, DigitRun(s, a), a + Len(DigitRun(s, a)))
ParseNumber(s, i) == NumberFrom(s, s[i] = "-", IF s[i] = "-" THEN i + 1 ELSE i)

\* Inside a string literal that starts at i, the character at k is escaped
\* when the backslashes next before it are odd in number.
Escaped(s, i, k) ==
  /\ k > i
  /\ s[k - 1] = "\\"
  /\ LET others == {m \in i..(k - 1) : s[m] # "\\"}
     IN IF others = {} THEN (k - i) % 2 = 1
        ELSE (k - 1 - (CHOOSE m \in others : \A n \in others : n <= m)) % 2 = 1
\* An escape starts at k; k is one of the four digits of a \u escape; k holds
\* a character that stands for itself.
IsEscape(s, i, k) == s[k] = "\\" /\ ~Escaped(s, i, k)
InCode(s, i, k) ==
  \E d \in 2..5 : k - d >= i /\ IsEscape(s, i, k - d) /\ s[k - d + 1] = "u"
IsPlain(s, i, k) == s[k] # "\\" /\ ~Escaped(s, i, k) /\ ~InCode(s, i, k)
\* The first quote that is not escaped closes the string (0: there is none).
ClosingQuote(s, i) ==
  LET quotes == {k \in i..Len(s) : s[k] = "\"" /\ ~Escaped(s, i, k)}
  IN IF quotes = {} THEN 0 ELSE CHOOSE k \in quotes : \A m \in quotes : k <= m
\* An escape is one of the two-character ones or \u and four hex digits; a
\* code unit below U+0020 is not allowed unescaped.
UnitAllowed(s, i, close, k) ==
  IF IsEscape(s, i, k)
  THEN \/ s[k + 1] \in {"\"", "\\", "/", "b", "f", "n", "r", "t"}
       \/ s[k + 1] = "u" /\ k + 5 < close /\ \A d \in 2..5 : IsHex(s[k + d])
  ELSE IsPlain(s, i, k) => ControlCode(s[k]) < 0
UnitAt(s, k) ==
  IF s[k] # "\\" THEN s[k]
  ELSE IF s[k + 1] = "u" THEN CodeUnit(SubSeq(s, k + 2, k + 5))
  ELSE Unescape(s[k + 1])
StringOf(s, close, units) ==
  [ok |-> TRUE, value |-> JsonString([m \in 1..Len(units) |-> UnitAt(s, units[m])]),
   next |-> close + 1]
StringUpTo(s, i, close) ==
  IF close = 0 THEN JsonFail
  ELSE IF \E k \in i..(close - 1) : ~UnitAllowed(s, i, close, k) THEN JsonFail
  ELSE StringOf(s, close,
                SelectSeq([m \in 1..(close - i) |-> i + m - 1],
                          LAMBDA k : IsEscape(s, i, k) \/ IsPlain(s, i, k)))
\* The rest of a string literal whose opening quote has been read at i - 1: up
\* to the closing quote, with the escapes replaced.
StringBody(s, i) == StringUpTo(s, i, ClosingQuote(s, i))

\* The distinct keys in the order they were first set.
FirstSet(names) ==
  LET firsts == SelectSeq([i \in 1..Len(names) |-> i],
                          LAMBDA i : \A j \in 1..(i - 1) : names[j] # names[i])
  IN [m \in 1..Len(firsts) |-> names[firsts[m]]]

\* The text s has the word w at position i.
HasWord(s, i, w) == i + Len(w) - 1 <= Len(s) /\ SubSeq(s, i, i + Len(w) - 1) = w

\* A key that is a canonical array index: "0", or digits without a leading
\* zero that denote at most 2^32 - 2.
MaxIndexDigits == <<"4","2","9","4","9","6","7","2","9","4">>
DigitsLess(a, b) ==
  \/ Len(a) < Len(b)
  \/ /\ Len(a) = Len(b)
     /\ \E i \in 1..Len(a) : /\ DigitValue(a[i]) < DigitValue(b[i])
                             /\ SubSeq(a, 1, i - 1) = SubSeq(b, 1, i - 1)
IsIndexKey(key) ==
  /\ key # <<>>
  /\ \A i \in 1..Len(key) : IsDigit(key[i])
  /\ (Len(key) > 1 => key[1] # "0")
  /\ ~DigitsLess(MaxIndexDigits, key)

\* The index keys of S, the least first.
AscendingKeys(S) ==
  [r \in 1..Cardinality(S) |->
     CHOOSE x \in S : Cardinality({y \in S : DigitsLess(y, x)}) = r - 1]

\* The members of the object a literal with the given members (in their
\* written order) creates: a key written again keeps its place and takes the
\* later value; array-index keys come first, in ascending order.
OwnProperties(written) ==
  LET keys == FirstSet([i \in 1..Len(written) |-> written[i].key])
      ordered == AscendingKeys({keys[i] : i \in {j \in 1..Len(keys) : IsIndexKey(keys[j])}})
                 \o SelectSeq(keys, LAMBDA k : ~IsIndexKey(k))
      Last(key) == written[CHOOSE i \in 1..Len(written) :
                             /\ written[i].key = key
                             /\ \A j \in (i + 1)..Len(written) : written[j].key # key]
  IN [i \in 1..Len(ordered) |-> Last(ordered[i])]

\* A value at position i (blanks before it are skipped), the elements of an
\* array after its opening bracket, the members of an object after its
\* opening brace.
RECURSIVE ParseValue(_, _)
RECURSIVE ParseElements(_, _, _)
RECURSIVE ParseMembers(_, _, _)
RECURSIVE ParseItems(_, _, _, _)
ParseValue(s, from) ==
  LET i == SkipWhitespace(s, from)
  IN IF i > Len(s) THEN JsonFail
     ELSE IF s[i] = "{"
     THEN LET j == SkipWhitespace(s, i + 1)
          IN IF j <= Len(s) /\ s[j] = "}"
             THEN [ok |-> TRUE, value |-> JsonObject(<<>>), next |-> j + 1]
             ELSE ParseMembers(s, j, <<>>)
     ELSE IF s[i] = "["
     THEN LET j == SkipWhitespace(s, i + 1)
          IN IF j <= Len(s) /\ s[j] = "]"
             THEN [ok |-> TRUE, value |-> JsonArray(<<>>), next |-> j + 1]
             ELSE ParseElements(s, j, <<>>)
     ELSE IF s[i] = "\"" THEN StringBody(s, i + 1)
     ELSE IF s[i] = "-" \/ IsDigit(s[i]) THEN ParseNumber(s, i)
     ELSE IF HasWord(s, i, <<"t","r","u","e">>)
     THEN [ok |-> TRUE, value |-> JsonBool(TRUE), next |-> i + 4]
     ELSE IF HasWord(s, i, <<"f","a","l","s","e">>)
     THEN [ok |-> TRUE, value |-> JsonBool(FALSE), next |-> i + 5]
     ELSE IF HasWord(s, i, <<"n","u","l","l">>)
     THEN [ok |-> TRUE, value |-> JsonNull, next |-> i + 4]
     ELSE JsonFail
\* After an element or a member: a comma (more follow) or the closer.
ItemSeparated(s, st, ok, item, j, closer) ==
  IF ~ok \/ j > Len(s) \/ s[j] \notin {",", closer}
  THEN [at |-> st.at, acc |-> st.acc, phase |-> "fail"]
  ELSE [at |-> j + 1, acc |-> Append(st.acc, item),
        phase |-> IF s[j] = "," THEN "more" ELSE "done"]
ItemParsed(s, st, v, item, closer) ==
  ItemSeparated(s, st, v.ok, item, SkipWhitespace(s, v.next), closer)
\* One more element.
ElementParsed(s, st, v) == ItemParsed(s, st, v, v.value, "]")
NextElement(s, st) ==
  IF st.phase # "more" THEN st ELSE ElementParsed(s, st, ParseValue(s, st.at))
\* One more member: its key, a colon, its value.
MemberParsed(s, st, k, v) ==
  ItemParsed(s, st, v, [key |-> k.value.text, value |-> v.value], "}")
MemberAfterKey(s, st, k, c) ==
  MemberParsed(s, st, k,
               IF k.ok /\ c <= Len(s) /\ s[c] = ":" THEN ParseValue(s, c + 1) ELSE JsonFail)
MemberKeyed(s, st, k) ==
  MemberAfterKey(s, st, k, IF k.ok THEN SkipWhitespace(s, k.next) ELSE 0)
MemberAt(s, st, i) ==
  MemberKeyed(s, st, IF i <= Len(s) /\ s[i] = "\"" THEN StringBody(s, i + 1) ELSE JsonFail)
NextMember(s, st) ==
  IF st.phase # "more" THEN st ELSE MemberAt(s, st, SkipWhitespace(s, st.at))
\* Up to k elements or members, one after the other.
ParseItems(s, st, k, members) ==
  IF k <= 1 THEN (IF members THEN NextMember(s, st) ELSE NextElement(s, st))
  ELSE LET h == ParseItems(s, st, k \div 2, members)
       IN IF h.phase = "more" THEN ParseItems(s, h, k - (k \div 2), members) ELSE h
\* An element and its separator take two characters at least.
ItemsResult(st, members) ==
  IF st.phase # "done" THEN JsonFail
  ELSE [ok |-> TRUE,
        value |-> IF members THEN JsonObject(OwnProperties(st.acc)) ELSE JsonArray(st.acc),
        next |-> st.at]
ParseElements(s, from, acc) ==
  ItemsResult(ParseItems(s, [at |-> from, acc |-> acc, phase |-> "more"], Len(s), FALSE), FALSE)
ParseMembers(s, from, acc) ==
  ItemsResult(ParseItems(s, [at |-> from, acc |-> acc, phase |-> "more"], Len(s), TRUE), TRUE)

\* JSON.parse(text): the value, when the text is one JSON value with nothing
\* but blanks around it; anything else throws.
WholeText(text, v) ==
  IF v.ok /\ SkipWhitespace(text, v.next) > Len(text)
  THEN [ok |-> TRUE, value |-> v.value]
  ELSE [ok |-> FALSE, value |-> JsonBlank]
JsonParse(text) == WholeText(text, ParseValue(text, 1))

\* Variant: a payload that failed to parse stays accumulated.
AfterFrameKeepBad(cur, parsed) == IF parsed THEN <<>> ELSE cur

\* currentData = '' after the try/catch around JSON.parse
AfterFrame(cur, parsed) == <<>>

\* messages.push(JSON.parse(currentData)), nothing being pushed when the parse
\* throws.
Pushed(msgs, j) == IF j.ok THEN Append(msgs, j.value) ELSE msgs

\* for (const line of lines) { ... }: the messages pushed by the lines of one
\* chunk, cur being currentData.
RECURSIVE ProcessLines(_, _, _)
RECURSIVE FrameEnds(_, _, _, _)
ProcessLines(lines, cur, msgs) ==
  IF lines = <<>> THEN msgs
  ELSE LET line == Head(lines)
       IN IF StartsWith(line, StrDataPrefix)
          THEN ProcessLines(Tail(lines), cur \o Slice(line, Len(StrDataPrefix)), msgs)
          ELSE IF line = <<>> /\ cur # <<>>
          THEN FrameEnds(Tail(lines), cur, msgs, JsonParse(cur))
          ELSE ProcessLines(Tail(lines), cur, msgs)
\* A blank line ends a frame: its payload j is pushed and currentData reset.
FrameEnds(rest, cur, msgs, j) == ProcessLines(rest, AfterFrame(cur, j.ok), Pushed(msgs, j))

\* The flush after the loop: a buffer that starts with 'data: ' is parsed.
Flush(buffer, msgs) ==
  IF StartsWith(buffer, StrDataPrefix)
  THEN Pushed(msgs, JsonParse(Slice(buffer, Len(StrDataPrefix))))
  ELSE msgs

\* The payloads a data line carries: JSON values (a number, a number with an
\* exponent, a literal, an object as a server sends it), a malformed text,
\* nothing.
PayloadSamples ==
  {<<"1">>, <<"1", "e", "2">>, <<"t", "r", "u", "e">>,
   <<"{", "\"", "i", "d", "\"", ":", "1", "}">>, <<"x">>, <<>>}

\* A data line and the number of newlines that follow it: two end the frame
\* with a blank line, one ends the line only, none leaves the line open.
FrameSamples == [payload : PayloadSamples, newlines : {0, 1, 2}]

RECURSIVE Newlines(_)
Newlines(n) == IF n = 0 THEN <<>> ELSE StrNewline \o Newlines(n - 1)

\* The text of a stream made of the given data lines.
RECURSIVE StreamText(_)
StreamText(frames) ==
  IF frames = <<>> THEN <<>>
  ELSE StrDataPrefix \o Head(frames).payload \o Newlines(Head(frames).newlines)
       \o StreamText(Tail(frames))

\* The chunks reader.read() delivers: the whole text, or the text cut in two.
Chunks(text, cut) ==
  IF cut = 0 THEN <<text>> ELSE <<SubSeq(text, 1, cut), Slice(text, cut)>>

ParseInit ==
  /\ CoreOff /\ OpOff /\ MonOff
  /\ \E n \in 0..MaxFrames : \E frames \in [1..n -> FrameSamples] :
       \E cut \in 0..(Len(StreamText(frames)) - 1) :
         parse = [pc |-> "reading", frames |-> frames,
                  chunks |-> IF frames = <<>> THEN <<>> ELSE Chunks(StreamText(frames), cut),
                  nchunks |-> IF frames = <<>> THEN 0 ELSE IF cut = 0 THEN 1 ELSE 2,
                  buffer |-> <<>>, messages |-> <<>>]

\* reader.read() delivers a chunk: it is appended to the buffer, the complete
\* lines are processed and the open last line stays in the buffer.
ParseRead ==
  /\ parse.pc = "reading"
  /\ parse.chunks # <<>>
  /\ LET lines == SplitLines(parse.buffer \o Head(parse.chunks))
     IN parse' = [parse EXCEPT
                    !.chunks = Tail(@),
                    !.buffer = lines[Len(lines)],
                    !.messages = ProcessLines(SubSeq(lines, 1, Len(lines) - 1), <<>>, @)]
  /\ UNCHANGED nonParseVars

\* reader.read() reports done: the buffer is flushed and the messages returned.
ParseEnd ==
  /\ parse.pc = "reading"
  /\ parse.chunks = <<>>
  /\ parse' = [parse EXCEPT !.pc = "done", !.buffer = <<>>,
                            !.messages = Flush(parse.buffer, @)]
  /\ UNCHANGED nonParseVars

ParseNext == ParseRead \/ ParseEnd

\* One event stream decoded by parseSSEResponse.
SpecParse == ParseInit /\ [][ParseNext]_vars

----------------------------------------------------------------------------
(* createActions: the operations that compose several calls *)

StrAddTags == "add-tags"
StrRemoveTags == "remove-tags"

\* What call(toolName, args) can end with once the limiter and withRetry are
\* through: a result, or one of these errors.
CallErrorSamples == {HttpError(503, BodyMockError), QuotaError(DefaultMaxPerDay)}

\* What ensureInitialized() can throw: the handshake was refused.
EnsureErrorSamples == {HttpError(401, BodyMockError)}

ContactIdSamples == {"c1", "c2"}
TagSamples == {"t1"}
TagResultSamples == {"tagged", "unchanged"}

\* An argument that is an array or a single value.
ListArg(items) == [array |-> TRUE, items |-> items]
SingleArg(item) == [array |-> FALSE, items |-> <<item>>]

\* Array.isArray(x) ? x : [x]
AsList(arg) == IF arg.array THEN arg.items ELSE <<arg.items[1]>>

\* What a tool call returns, as callTool hands it on: an object that is the
\* data itself ("object"), or a wrapper whose content[0].text is the JSON text
\* of the data ("text") or a text that is not JSON ("badtext").
ToolResult(form, value) == [form |-> form, value |-> value]

\* result?.content?.[0]?.text ? JSON.parse(result.content[0].text) : result
\* JSON.parse throws a SyntaxError on a text that is not JSON.
Unwrap(r) == [ok |-> r.form # "badtext", value |-> r.value]

StrUnexpectedToken == <<"U","n","e","x","p","e","c","t","e","d"," ","t","o","k","e","n">>
JsonSyntaxError == [kind |-> "syntax", type |-> "SyntaxError", status |-> 0,
                    message |-> StrUnexpectedToken]

NoOut == [defined |-> FALSE, list |-> <<>>, value |-> ToolResult("none", <<>>)]

\* The operation as it is called: nothing has been sent or collected.
DerivedCall(kind, arg, tags, limit) ==
  [pc |-> "ensure", kind |-> kind, arg |-> arg, tags |-> tags, limit |-> limit,
   calls |-> <<>>, results |-> <<>>, out |-> NoOut, err |-> NoError]

\* call('add-tags' | 'remove-tags', { contactId, tags: tagList }) is issued.
TagRequest(o, contactId) ==
  [tool |-> IF o.kind = "tagContacts" THEN StrAddTags ELSE StrRemoveTags,
   contactId |-> contactId, tags |-> AsList(o.tags)]

\* The for loop of tagContacts / removeContactTags comes to its next
\* identifier: the call for it is issued, or the results are returned.
TagLoop(o) ==
  LET ids == AsList(o.arg)
      k == Len(o.results) + 1
  IN IF k <= Len(ids)
     THEN [o EXCEPT !.pc = "calling", !.calls = Append(@, TagRequest(o, ids[k]))]
     ELSE [o EXCEPT !.pc = "returned", !.out = [NoOut EXCEPT !.defined = TRUE, !.list = o.results]]

\* Variant: the failed identifier is skipped and the results collected so far
\* are returned.
RejectsSilently(o, err) ==
  [o EXCEPT !.pc = "returned", !.out = [NoOut EXCEPT !.defined = TRUE, !.list = o.results]]

\* An awaited call throws inside an operation without try/catch: the operation
\* rejects with that error.
Rejects(o, err) == [o EXCEPT !.pc = "failed", !.err = err]

\* tagContacts(contactIds, tags) / removeContactTags(contactIds, tags) with any
\* argument given as an array or as a single value.
TagInit ==
  /\ CoreOff /\ ParseOff /\ MonOff
  /\ \E kind \in {"tagContacts", "removeContactTags"} :
     \E n \in 0..MaxIds : \E ids \in [1..n -> ContactIdSamples] :
     \E one \in BOOLEAN : \E tag \in TagSamples : \E oneTag \in BOOLEAN :
       /\ one => n = 1
       /\ op = DerivedCall(kind,
                           IF one THEN SingleArg(ids[1]) ELSE ListArg(ids),
                           IF oneTag THEN SingleArg(tag) ELSE ListArg(<<tag>>), 0)

\* ensureInitialized() returns: the loop starts.
TagEnsured ==
  /\ op.pc = "ensure"
  /\ op' = TagLoop(op)
  /\ UNCHANGED nonOpVars

\* ensureInitialized() throws.
TagEnsureThrows ==
  /\ op.pc = "ensure"
  /\ \E err \in EnsureErrorSamples : op' = Rejects(op, err)
  /\ UNCHANGED nonOpVars

\* The call for the current identifier returns: results.push({ contactId, result }).
TagCallReturns ==
  /\ op.pc = "calling"
  /\ \E r \in TagResultSamples :
       op' = TagLoop([op EXCEPT !.results =
                        Append(@, [contactId |-> op.calls[Len(op.calls)].contactId,
                                   result |-> r])])
  /\ UNCHANGED nonOpVars

\* The call for the current identifier throws.
TagCallThrows ==
  /\ op.pc = "calling"
  /\ \E err \in CallErrorSamples : op' = Rejects(op, err)
  /\ UNCHANGED nonOpVars

TagNext == TagEnsured \/ TagEnsureThrows \/ TagCallReturns \/ TagCallThrows

\* One batch tagging operation.
SpecTag == TagInit /\ [][TagNext]_vars

----------------------------------------------------------------------------
(* createActions.getConversationHistory *)

StrSearchConversation == "search-conversation"
StrGetMessages == "get-messages"

\* The conversations a search finds, by id.
ConversationLists == UNION {[1..n -> {"v1", "v2"}] : n \in 0..MaxConvs}

\* What search-conversation returns: the conversations as an object or as JSON
\* text, or a text that is not JSON.
ConvResultSamples ==
  {ToolResult(form, convs) : form \in {"object", "text"}, convs \in ConversationLists}
  \cup {ToolResult("badtext", <<>>)}

\* What get-messages returns: handed on as it is.
MsgResultSamples == {ToolResult("text", <<"m1", "m2">>), ToolResult("object", <<>>)}

\* { messages: [] }
EmptyMessages == ToolResult("object", <<>>)

\* Variant: the last conversation found is taken.
LastConversation(convs) == convs[Len(convs)]

\* conversations.conversations[0].id
FirstConversation(convs) == convs[1]

\* getConversationHistory(contactId, options), limit being options.limit
\* (0: no options).
HistoryInit ==
  /\ CoreOff /\ ParseOff /\ MonOff
  /\ \E c \in ContactIdSamples : \E limit \in {0, 5} :
       op = DerivedCall("getConversationHistory", SingleArg(c), ListArg(<<>>), limit)

\* ensureInitialized() returns: call('search-conversation', { contactId }).
HistoryEnsured ==
  /\ op.pc = "ensure"
  /\ op' = [op EXCEPT !.pc = "calling",
                      !.calls = <<[tool |-> StrSearchConversation, key |-> op.arg.items[1],
                                   limit |-> 0]>>]
  /\ UNCHANGED nonOpVars

\* ensureInitialized() throws.
HistoryEnsureThrows ==
  /\ op.pc = "ensure"
  /\ \E err \in EnsureErrorSamples : op' = Rejects(op, err)
  /\ UNCHANGED nonOpVars

\* The search returns: its result is decoded; with a conversation in it
\* call('get-messages', { conversationId, ...options }) is issued, without one
\* { messages: [] } is returned.
HistorySearchReturns ==
  /\ op.pc = "calling" /\ Len(op.calls) = 1
  /\ \E r \in ConvResultSamples :
       LET u == Unwrap(r)
           o == [op EXCEPT !.results = <<r>>]
       IN op' = IF ~u.ok THEN Rejects(o, JsonSyntaxError)
                ELSE IF Len(u.value) > 0
                THEN [o EXCEPT !.calls = Append(@, [tool |-> StrGetMessages,
                                                    key |-> FirstConversation(u.value),
                                                    limit |-> op.limit])]
                ELSE [o EXCEPT !.pc = "returned",
                               !.out = [NoOut EXCEPT !.defined = TRUE, !.value = EmptyMessages]]
  /\ UNCHANGED nonOpVars

\* get-messages returns: its result is the operation's result.
HistoryMessagesReturn ==
  /\ op.pc = "calling" /\ Len(op.calls) = 2
  /\ \E m \in MsgResultSamples :
       op' = [op EXCEPT !.pc = "returned",
                        !.out = [NoOut EXCEPT !.defined = TRUE, !.value = m]]
  /\ UNCHANGED nonOpVars

\* The call in flight throws.
HistoryCallThrows ==
  /\ op.pc = "calling"
  /\ \E err \in CallErrorSamples : op' = Rejects(op, err)
  /\ UNCHANGED nonOpVars

HistoryNext ==
  \/ HistoryEnsured \/ HistoryEnsureThrows \/ HistorySearchReturns
  \/ HistoryMessagesReturn \/ HistoryCallThrows

\* One conversation-history lookup.
SpecHistory == HistoryInit /\ [][HistoryNext]_vars

----------------------------------------------------------------------------
(* createActions.getPipelineOverview *)

StrGetPipelines == "get-pipelines"
StrSearchOpportunity == "search-opportunity"
StrNoPipelineFound == "No pipeline found"

\* Object.keys / Object.entries of an object whose properties were set in the
\* order `names`: the keys that are array indices in ascending numeric order,
\* then the other keys in the order they were first set.
ObjectKeys(names) ==
  LET first == FirstSet(names)
  IN AscendingKeys({first[i] : i \in {j \in 1..Len(first) : IsIndexKey(first[j])}})
     \o SelectSeq(first, LAMBDA k : ~IsIndexKey(k))

\* The names of the members every object inherits from Object.prototype.
StrProto == <<"_","_","p","r","o","t","o","_","_">>
ObjectPrototypeMembers ==
  {<<"c","o","n","s","t","r","u","c","t","o","r">>,
   <<"_","_","d","e","f","i","n","e","G","e","t","t","e","r","_","_">>,
   <<"_","_","d","e","f","i","n","e","S","e","t","t","e","r","_","_">>,
   <<"h","a","s","O","w","n","P","r","o","p","e","r","t","y">>,
   <<"_","_","l","o","o","k","u","p","G","e","t","t","e","r","_","_">>,
   <<"_","_","l","o","o","k","u","p","S","e","t","t","e","r","_","_">>,
   <<"i","s","P","r","o","t","o","t","y","p","e","O","f">>,
   <<"p","r","o","p","e","r","t","y","I","s","E","n","u","m","e","r","a","b","l","e">>,
   <<"t","o","S","t","r","i","n","g">>,
   <<"v","a","l","u","e","O","f">>,
   <<"_","_","p","r","o","t","o","_","_">>,
   <<"t","o","L","o","c","a","l","e","S","t","r","i","n","g">>}

\* The keys of an object filled by obj[name] = {...} for each of `names`:
\* assigning to __proto__ sets the object's prototype and adds no property.
AssignedKeys(names) == ObjectKeys(SelectSeq(names, LAMBDA k : k # StrProto))

\* Stage identifiers and stage names, as their characters.
StageS1 == <<"s", "1">>
StageS2 == <<"s", "2">>
StageS3 == <<"s", "3">>
StageS4 == <<"s", "4">>
StageS5 == <<"s", "5">>
NameRequested == <<"R","e","q","u","e","s","t","e","d">>
NameSent == <<"S","e","n","t">>
NameOpen == <<"O","p","e","n">>
NameConstructor == <<"c","o","n","s","t","r","u","c","t","o","r">>

\* Pipelines of the location: one with two stages, one without a stages
\* field, one with two stages of one name, with stages named by numbers and
\* with a stage named __proto__.
PipelineSamples ==
  {[id |-> "p1", name |-> "Audit", stages |-> <<[id |-> StageS1, name |-> NameRequested],
                                                [id |-> StageS2, name |-> NameSent]>>],
   [id |-> "p2", name |-> "Renewal", stages |-> <<>>],
   [id |-> "p3", name |-> "Upsell", stages |-> <<[id |-> StageS1, name |-> NameOpen],
                                                 [id |-> StageS2, name |-> <<"1", "0">>],
                                                 [id |-> StageS5, name |-> StrProto],
                                                 [id |-> StageS3, name |-> NameOpen],
                                                 [id |-> StageS4, name |-> <<"2">>]>>]}
PipelineLists == UNION {[1..n -> PipelineSamples] : n \in 0..MaxPipes}
PipelineIdSamples == {"p1", "p2", "p3", "p9"}

\* undefined, where a pipeline is expected
NoPipeline == [id |-> "none", name |-> "none", stages |-> <<>>]

\* Opportunities: their stage and their monetary value, which may be missing.
OpportunitySamples ==
  {[pipelineStageId |-> StageS1, priced |-> TRUE, monetaryValue |-> 100],
   [pipelineStageId |-> StageS1, priced |-> FALSE, monetaryValue |-> 0],
   [pipelineStageId |-> StageS2, priced |-> TRUE, monetaryValue |-> 50]}
OpportunityLists == UNION {[1..n -> OpportunitySamples] : n \in 0..MaxOpps}

\* What get-pipelines and search-opportunity return.
PipelinesResultSamples ==
  {ToolResult(form, ps) : form \in {"object", "text"}, ps \in PipelineLists}
  \cup {ToolResult("badtext", <<>>)}
OppsResultSamples ==
  {ToolResult(form, os) : form \in {"object", "text"}, os \in OpportunityLists}
  \cup {ToolResult("badtext", <<>>)}

\* Variant: the first pipeline of the list is taken whatever the id.
ChooseFirstPipeline(pipelines, id) ==
  IF pipelines = <<>> THEN NoPipeline ELSE pipelines[1]

\* pipelines.find(p => p.id === pipelineId) || pipelines[0]
ChoosePipeline(pipelines, id) ==
  LET hits == {i \in 1..Len(pipelines) : pipelines[i].id = id}
  IN IF hits # {} THEN pipelines[CHOOSE i \in hits : \A j \in hits : i <= j]
     ELSE IF pipelines # <<>> THEN pipelines[1]
     ELSE NoPipeline

\* o.monetaryValue || 0
ValueOrZero(o) == IF o.priced THEN o.monetaryValue ELSE 0

\* opps.reduce((sum, o) => sum + (o.monetaryValue || 0), 0)
RECURSIVE SumValues(_)
SumValues(opps) ==
  IF opps = <<>> THEN 0 ELSE ValueOrZero(Head(opps)) + SumValues(Tail(opps))

\* The entry of one stage: the opportunities in that stage, counted and summed.
StageEntry(stage, opps) ==
  LET stageOpps == SelectSeq(opps, LAMBDA o : o.pipelineStageId = stage.id)
  IN [name |-> stage.name, id |-> stage.id, count |-> Len(stageOpps),
      value |-> SumValues(stageOpps)]

\* The value getPipelineOverview returns, or { error: 'No pipeline found' }.
\* `stages` is an object keyed by the stage's name, given here as the list of
\* its entries: a stage whose name was already set replaces the entry of the
\* earlier stage of that name, and a stage named __proto__ leaves no entry.
Overview(pipeline, opps) ==
  LET listed == pipeline.stages
      keys == AssignedKeys([k \in 1..Len(listed) |-> listed[k].name])
      LastNamed(name) ==
        listed[CHOOSE k \in 1..Len(listed) :
                 /\ listed[k].name = name
                 /\ \A j \in (k + 1)..Len(listed) : listed[j].name # name]
  IN [error |-> "none", pipeline |-> pipeline.name, pipelineId |-> pipeline.id,
      totalOpportunities |-> Len(opps),
      stages |-> [i \in 1..Len(keys) |-> StageEntry(LastNamed(keys[i]), opps)]]
NoPipelineFound ==
  [error |-> StrNoPipelineFound, pipeline |-> "none", pipelineId |-> "none",
   totalOpportunities |-> 0, stages |-> <<>>]

\* getPipelineOverview(pipelineId)
OverviewInit ==
  /\ CoreOff /\ ParseOff /\ MonOff
  /\ \E id \in PipelineIdSamples :
       op = DerivedCall("getPipelineOverview", SingleArg(id), ListArg(<<>>), 0)

\* ensureInitialized() returns: getPipelines() finds the client initialized
\* and issues call('get-pipelines', {}).
OverviewEnsured ==
  /\ op.pc = "ensure"
  /\ op' = [op EXCEPT !.pc = "calling",
                      !.calls = <<[tool |-> StrGetPipelines, key |-> "none"]>>]
  /\ UNCHANGED nonOpVars

\* ensureInitialized() throws.
OverviewEnsureThrows ==
  /\ op.pc = "ensure"
  /\ \E err \in EnsureErrorSamples : op' = Rejects(op, err)
  /\ UNCHANGED nonOpVars

\* get-pipelines returns: the pipeline is chosen; without one the error value
\* is returned, with one searchOpportunities({ pipelineId: pipeline.id }) is
\* issued.
OverviewPipelinesReturn ==
  /\ op.pc = "calling" /\ Len(op.calls) = 1
  /\ \E r \in PipelinesResultSamples :
       LET u == Unwrap(r)
           o == [op EXCEPT !.results = <<r>>]
           pipeline == ChoosePipeline(u.value, op.arg.items[1])
       IN op' = IF ~u.ok THEN Rejects(o, JsonSyntaxError)
                ELSE IF pipeline = NoPipeline
                THEN [o EXCEPT !.pc = "returned",
                               !.out = [NoOut EXCEPT !.defined = TRUE, !.value = NoPipelineFound]]
                ELSE [o EXCEPT !.calls = Append(@, [tool |-> StrSearchOpportunity,
                                                    key |-> pipeline.id])]
  /\ UNCHANGED nonOpVars

\* search-opportunity returns: the stages of the chosen pipeline are filled
\* and the overview is returned.
OverviewOpportunitiesReturn ==
  /\ op.pc = "calling" /\ Len(op.calls) = 2
  /\ \E r \in OppsResultSamples :
       LET u == Unwrap(r)
           pipeline == ChoosePipeline(Unwrap(op.results[1]).value, op.arg.items[1])
       IN op' = IF ~u.ok THEN Rejects(op, JsonSyntaxError)
                ELSE [op EXCEPT !.pc = "returned",
                                !.out = [NoOut EXCEPT !.defined = TRUE,
                                                      !.value = Overview(pipeline, u.value)]]
  /\ UNCHANGED nonOpVars

\* The call in flight throws.
OverviewCallThrows ==
  /\ op.pc = "calling"
  /\ \E err \in CallErrorSamples : op' = Rejects(op, err)
  /\ UNCHANGED nonOpVars

OverviewNext ==
  \/ OverviewEnsured \/ OverviewEnsureThrows \/ OverviewPipelinesReturn
  \/ OverviewOpportunitiesReturn \/ OverviewCallThrows

\* One pipeline overview.
SpecOverview == OverviewInit /\ [][OverviewNext]_vars

----------------------------------------------------------------------------
(* The monitoring engine: runAllChecks and formatSummary *)

\* Text outside ASCII is written by code point.
StrHeader == <<"U+1F4CA"," ","G","H","L"," ","M","o","n","i","t","o","r"," ","U+2014"," ">>
StrClock == <<"U+1F550"," ">>
StrErrorMark == <<":"," ","U+26A0","U+FE0F"," ","E","r","r","o","r"," ","U+2014"," ">>
StrNoneMark == <<":"," ","U+2705"," ","N","o","n","e">>
StrWarnMark == <<":"," ","U+26A0","U+FE0F"," ">>
StrFound == <<" ","f","o","u","n","d">>
StrAllClear == <<"U+2705"," ","A","l","l"," ","c","l","e","a","r"," ","U+2014"," ","n","o"," ","i","s","s","u","e","s"," ","d","e","t","e","c","t","e","d",".">>
StrTotalIssues == <<" ","t","o","t","a","l"," ","i","s","s","u","e","s"," ","n","e","e","d"," ","a","t","t","e","n","t","i","o","n",".">>
StrAttention == <<"U+26A0","U+FE0F"," ">>
StrUndefined == <<"u","n","d","e","f","i","n","e","d">>

\* The four checks in the order runAllChecks starts them: the name each puts
\* in its finding, and the emoji and label of its summary line.
CheckIds == <<"stale_leads", "missed_followups", "pipeline_bottlenecks", "slow_responses">>
CheckEmojis == <<<<"U+1F464">>, <<"U+1F4CB">>, <<"U+1F534">>, <<"U+23F1","U+FE0F">>>>
CheckLabels == <<<<"S","t","a","l","e"," ","L","e","a","d","s">>,
                 <<"M","i","s","s","e","d"," ","F","o","l","l","o","w","-","u","p","s">>,
                 <<"P","i","p","e","l","i","n","e"," ","B","o","t","t","l","e","n","e","c","k","s">>,
                 <<"S","l","o","w"," ","R","e","s","p","o","n","s","e","s">>>>
Checks == 1..Len(CheckIds)

\* A finding: what a check returns ({ check, count, items, ... }), or what
\* runAllChecks puts in its place ({ check, error }).
Finding(check, count, items) ==
  [check |-> check, failed |-> FALSE, error |-> <<>>,
   counted |-> TRUE, count |-> count, items |-> items]

\* Variant: the finding of a failed check reports a count of zero as well.
FailedFindingCounted(check, reason) ==
  [check |-> check, failed |-> TRUE, error |-> reason.message,
   counted |-> TRUE, count |-> 0, items |-> "none"]

\* { check: '...', error: reason?.message }
FailedFinding(check, reason) ==
  [check |-> check, failed |-> TRUE, error |-> reason.message,
   counted |-> FALSE, count |-> 0, items |-> "none"]

NoFinding == [check |-> "none", failed |-> FALSE, error |-> <<>>,
              counted |-> FALSE, count |-> 0, items |-> "none"]

\* status === 'fulfilled' ? value : { check, error: reason?.message }
FindingOf(settled, check) ==
  IF settled.status = "fulfilled" THEN settled.value ELSE FailedFinding(check, settled.reason)

\* `${check.count}`
CountText(f) == IF f.counted THEN NatToStr(f.count) ELSE StrUndefined

\* add(emoji, label, check): the line of one check.
CheckLine(k, f) ==
  CheckEmojis[k] \o <<" ">> \o CheckLabels[k] \o
  (IF f.failed /\ f.error # <<>> THEN StrErrorMark \o f.error
   ELSE IF f.counted /\ f.count = 0 THEN StrNoneMark
   ELSE StrWarnMark \o CountText(f) \o StrFound)

\* Variant: the checks that found something are counted, not what they found.
RECURSIVE ChecksWithIssues(_)
ChecksWithIssues(findings) ==
  IF findings = <<>> THEN 0
  ELSE (IF Head(findings).counted /\ Head(findings).count > 0 THEN 1 ELSE 0)
       + ChecksWithIssues(Tail(findings))

\* Object.values(checks).reduce((sum, c) => sum + (c.count || 0), 0)
RECURSIVE TotalIssues(_)
TotalIssues(findings) ==
  IF findings = <<>> THEN 0
  ELSE (IF Head(findings).counted THEN Head(findings).count ELSE 0)
       + TotalIssues(Tail(findings))

\* lines.join('\n')
RECURSIVE JoinLines(_)
JoinLines(lines) ==
  IF lines = <<>> THEN <<>>
  ELSE IF Len(lines) = 1 THEN lines[1]
  ELSE lines[1] \o StrNewline \o JoinLines(Tail(lines))

\* formatSummary(results)
FormatSummary(location, stamp, findings) ==
  JoinLines(<<StrHeader \o location, StrClock \o stamp, <<>>>>
            \o [k \in Checks |-> CheckLine(k, findings[k])]
            \o << <<>>,
                  IF TotalIssues(findings) = 0 THEN StrAllClear
                  ELSE StrAttention \o NatToStr(TotalIssues(findings)) \o StrTotalIssues >>)

\* Inputs: the location's name, the local time as toLocaleString() prints it,
\* what a check can count and the errors a check can fail with.
LocationSample == <<"M","a","i","n">>
StampSample == <<"1","0","/","2","9","/","2","0","2","6",","," ","9",":","0","0",":","0","0"," ","A","M">>
CountSamples == {0, 2, 3}
CheckErrorSamples == {HttpError(503, BodyMockError), QuotaError(DefaultMaxPerDay)}

Unstarted == [status |-> "idle", value |-> NoFinding, reason |-> NoError]
Pending == [status |-> "pending", value |-> NoFinding, reason |-> NoError]

\* What a location's config holds as token or locationId: nothing, a plain
\* text, or 'ENV:NAME' together with what process.env holds under NAME (the
\* empty text when the variable is not set).
NoValue == [env |-> FALSE, text |-> "", held |-> ""]
Plain(text) == [env |-> FALSE, text |-> text, held |-> ""]
FromEnv(name, held) == [env |-> TRUE, text |-> name, held |-> held]
TokenSamples == {NoValue, Plain("tok"), FromEnv("GHL_TOKEN", "secret"), FromEnv("GHL_TOKEN", "")}
LocationIdSamples == {NoValue, Plain("loc")}
AliasSamples == {"main", "east"}

\* The config's locations: `main` is the only one.
KnownAlias(alias) == alias = "main"

\* resolveEnvValue(value)
ResolveEnvValue(value) ==
  IF value.env
  THEN IF value.held = ""
       THEN [ok |-> FALSE, value |-> "",
             err |-> "Environment variable " \o value.text \o " not set"]
       ELSE [ok |-> TRUE, value |-> value.held, err |-> "none"]
  ELSE [ok |-> TRUE, value |-> value.text, err |-> "none"]

\* createActions(locationConfig): the token and the location id are resolved
\* and createMcpClient refuses a missing one. "none" when the facade is made.
CreateActionsError(location) ==
  LET token == ResolveEnvValue(location.token)
      locationId == ResolveEnvValue(location.locationId)
  IN IF ~token.ok THEN token.err
     ELSE IF ~locationId.ok THEN locationId.err
     ELSE IF token.value = "" THEN "GHL token is required"
     ELSE IF locationId.value = "" THEN "GHL locationId is required"
     ELSE "none"

\* `Location '${locationAlias}' not found in config`
LocationNotFound(alias) == "Location '" \o alias \o "' not found in config"
NoReport == [checks |-> [k \in Checks |-> NoFinding], summary |-> <<>>]

\* runAllChecks(config, locationAlias) is called with an alias the config
\* knows or does not know; the location `main` holds a token and a location
\* id, or lacks one.
MonitorInit ==
  /\ CoreOff /\ ParseOff /\ OpOff
  /\ \E alias \in AliasSamples : \E token \in TokenSamples :
     \E locationId \in LocationIdSamples :
       mon = [pc |-> "called", alias |-> alias, known |-> KnownAlias(alias),
              location |-> [token |-> token, locationId |-> locationId],
              checks |-> [k \in Checks |-> Unstarted],
              report |-> NoReport, closed |-> FALSE, err |-> "none"]

\* runAllChecks up to its await: without the location it throws; with it,
\* createActions makes the facade, or throws on credentials it cannot use,
\* and the four checks are started in one synchronous block.
MonitorStarts ==
  /\ mon.pc = "called"
  /\ mon' = IF ~mon.known
            THEN [mon EXCEPT !.pc = "failed", !.err = LocationNotFound(mon.alias)]
            ELSE IF CreateActionsError(mon.location) # "none"
            THEN [mon EXCEPT !.pc = "failed", !.err = CreateActionsError(mon.location)]
            ELSE [mon EXCEPT !.pc = "running", !.checks = [k \in Checks |-> Pending]]
  /\ UNCHANGED nonMonVars

\* A check returns its finding.
CheckFulfils ==
  /\ mon.pc = "running"
  /\ \E k \in Checks : \E n \in CountSamples :
       /\ mon.checks[k].status = "pending"
       /\ mon' = [mon EXCEPT !.checks[k] =
                    [status |-> "fulfilled",
                     value |-> Finding(CheckIds[k], n, IF n = 0 THEN "empty" ELSE "some"),
                     reason |-> NoError]]
  /\ UNCHANGED nonMonVars

\* A check throws.
CheckRejects ==
  /\ mon.pc = "running"
  /\ \E k \in Checks : \E err \in CheckErrorSamples :
       /\ mon.checks[k].status = "pending"
       /\ mon' = [mon EXCEPT !.checks[k] =
                    [status |-> "rejected", value |-> NoFinding, reason |-> err]]
  /\ UNCHANGED nonMonVars

\* Promise.allSettled resolves: the report is built, the summary is rendered,
\* the facade is closed and the report is returned.
MonitorReports ==
  /\ mon.pc = "running"
  /\ \A k \in Checks : mon.checks[k].status # "pending"
  /\ LET findings == [k \in Checks |-> FindingOf(mon.checks[k], CheckIds[k])]
     IN mon' = [mon EXCEPT !.pc = "returned",
                           !.report = [checks |-> findings,
                                       summary |-> FormatSummary(LocationSample, StampSample,
                                                                 findings)],
                           !.closed = TRUE]
  /\ UNCHANGED nonMonVars

MonitorNext == MonitorStarts \/ CheckFulfils \/ CheckRejects \/ MonitorReports

\* One run of the monitoring engine.
SpecMonitor == MonitorInit /\ [][MonitorNext]_vars

----------------------------------------------------------------------------
(* The stale-lead check: checkStaleLeads *)

\* Instants are milliseconds since the epoch, as Date keeps them.
HourMs == 3600000
DefaultStaleHours == 48
ItemsLimit == 10
ContactSearchLimit == 100

\* A date field of a record fetched from the CRM: absent, or an instant.
Absent == [has |-> FALSE, at |-> 0]
At(t) == [has |-> TRUE, at |-> t]

\* Variant: the latest of the three dates stands for the contact's activity.
LatestActivity(c) ==
  LET present == {d \in {c.lastActivity, c.dateUpdated, c.dateAdded} : d.has}
  IN IF present = {} THEN Absent
     ELSE CHOOSE d \in present : \A e \in present : e.at <= d.at

\* c.lastActivity || c.dateUpdated || c.dateAdded
LastActivity(c) ==
  IF c.lastActivity.has THEN c.lastActivity
  ELSE IF c.dateUpdated.has THEN c.dateUpdated
  ELSE c.dateAdded

\* config.thresholds?.stale_lead_hours || 48: a threshold of zero counts as
\* not configured.
StaleThreshold(configured) == IF configured = 0 THEN DefaultStaleHours ELSE configured

\* Date.now() - threshold * 3600_000
StaleCutoff(nowMs, threshold) == nowMs - threshold * HourMs

\* The filter's predicate: lastActivity && new Date(lastActivity) < new Date(cutoff)
IsStale(c, cutoff) == LastActivity(c).has /\ LastActivity(c).at < cutoff

\* Variant: the list is not cut.
Uncut(s, n) == s

\* s.slice(0, n)
FirstN(s, n) == SubSeq(s, 1, IF Len(s) < n THEN Len(s) ELSE n)

\* parseContent(result) followed by ?.<list> || []: the list carried by a
\* plain object or by JSON text; nothing for a missing result or for text
\* that is not JSON, which parseContent hands back unparsed.
ParseContent(r) == IF r.form \in {"object", "text"} THEN r.value ELSE <<>>

\* What checkStaleLeads returns. An item keeps the identifier and the date
\* handed to timeAgo.
StaleFinding(contacts, threshold, cutoff) ==
  LET stale == SelectSeq(contacts, LAMBDA c : IsStale(c, cutoff))
      shown == FirstN(stale, ItemsLimit)
  IN [check |-> CheckIds[1], count |-> Len(stale), threshold |-> threshold,
      items |-> [i \in 1..Len(shown) |->
                   [id |-> shown[i].id, lastActivity |-> LastActivity(shown[i]).at]],
      hasMore |-> Len(stale) > ItemsLimit]

\* Inputs: the clock at the call, the configured threshold (0: none), and the
\* dates a contact can carry, around the cutoffs these produce.
MaxContacts == 2
NowSamples == {100 * HourMs, 101 * HourMs}
StaleConfigSamples == {0, 45}
ContactDateSamples ==
  [lastActivity : {Absent, At(50 * HourMs), At(52 * HourMs), At(60 * HourMs)},
   dateUpdated : {Absent, At(50 * HourMs), At(60 * HourMs)},
   dateAdded : {Absent, At(50 * HourMs)}]
WithId(d, i) == [id |-> i, lastActivity |-> d.lastActivity,
                 dateUpdated |-> d.dateUpdated, dateAdded |-> d.dateAdded]
ContactLists ==
  UNION {{[i \in 1..n |-> WithId(ds[i], i)] : ds \in [1..n -> ContactDateSamples]}
         : n \in 0..MaxContacts}
ContactsResultSamples ==
  {ToolResult("object", cs) : cs \in ContactLists} \cup
  {ToolResult("text", cs) : cs \in ContactLists} \cup
  {ToolResult("badtext", <<>>), ToolResult("none", <<>>)}
NoStaleFinding == [check |-> "none", count |-> 0, threshold |-> 0, items |-> <<>>,
                   hasMore |-> FALSE]

\* checkStaleLeads(actions, config) is called.
StaleInit ==
  /\ CoreOff /\ ParseOff /\ OpOff
  /\ \E nowMs \in NowSamples : \E configured \in StaleConfigSamples :
       mon = [pc |-> "called", now |-> nowMs, configured |-> configured,
              threshold |-> 0, cutoff |-> 0, calls |-> <<>>, contacts |-> <<>>,
              finding |-> NoStaleFinding, err |-> NoError]

\* Up to the await: the threshold and the cutoff are fixed and the contact
\* search is issued.
StaleStarts ==
  /\ mon.pc = "called"
  /\ mon' = [mon EXCEPT !.pc = "searching",
                        !.threshold = StaleThreshold(mon.configured),
                        !.cutoff = StaleCutoff(mon.now, StaleThreshold(mon.configured)),
                        !.calls = <<[query |-> <<>>, limit |-> ContactSearchLimit]>>]
  /\ UNCHANGED nonMonVars

\* The search returns: the stale contacts are filtered out and reported.
StaleContactsReturn ==
  /\ mon.pc = "searching"
  /\ \E r \in ContactsResultSamples :
       mon' = [mon EXCEPT !.pc = "returned",
                          !.contacts = ParseContent(r),
                          !.finding = StaleFinding(ParseContent(r), mon.threshold, mon.cutoff)]
  /\ UNCHANGED nonMonVars

\* The search throws: so does the check.
StaleCallThrows ==
  /\ mon.pc = "searching"
  /\ \E err \in CheckErrorSamples : mon' = [mon EXCEPT !.pc = "failed", !.err = err]
  /\ UNCHANGED nonMonVars

StaleNext == StaleStarts \/ StaleContactsReturn \/ StaleCallThrows

\* One stale-lead check.
SpecStale == StaleInit /\ [][StaleNext]_vars

----------------------------------------------------------------------------
(* The missed-follow-up check: checkMissedFollowups *)

FollowupSearchLimit == 50
FollowupContacts == 20

\* task.dueDate && new Date(task.dueDate) < now && !task.completed
IsOverdue(tsk, nowMs) == tsk.dueDate.has /\ tsk.dueDate.at < nowMs /\ ~tsk.completed

\* A text field of a task: missing, or a string (which may be empty).
NoText == [has |-> FALSE, text |-> ""]
Text(str) == [has |-> TRUE, text |-> str]

\* task.title || task.body
TaskTitle(tsk) == IF tsk.title.has /\ tsk.title.text # "" THEN tsk.title ELSE tsk.body

\* The entries one contact's tasks add to `overdue`, in the order of the tasks.
OverdueOf(contactId, tasks, nowMs) ==
  LET late == SelectSeq([j \in 1..Len(tasks) |-> j], LAMBDA j : IsOverdue(tasks[j], nowMs))
  IN [m \in 1..Len(late) |->
        [contactId |-> contactId, taskTitle |-> TaskTitle(tasks[late[m]]),
         dueDate |-> tasks[late[m]].dueDate.at]]

\* What checkMissedFollowups returns.
FollowupFinding(overdue) ==
  [check |-> CheckIds[2], count |-> Len(overdue), items |-> FirstN(overdue, ItemsLimit),
   hasMore |-> Len(overdue) > ItemsLimit]

\* Inputs. The CRM holds `size` contacts, numbered from 1; what it answers to
\* the task fetch of the i-th contact repeats with the period of `answers`.
\* An answer is a thrown error or a result in one of parseContent's forms.
MaxPeriod == 2
Task(title, dueDate, completed) ==
  [title |-> Text(title), body |-> NoText, dueDate |-> dueDate, completed |-> completed]
\* A task without a title, or with an empty one, and with or without a body.
Untitled(title, body, dueDate, completed) ==
  [title |-> title, body |-> body, dueDate |-> dueDate, completed |-> completed]
Thrown(err) == [throws |-> TRUE, err |-> err, result |-> ToolResult("none", <<>>)]
Answered(result) == [throws |-> FALSE, err |-> NoError, result |-> result]
TaskAnswerSamples ==
  {Thrown(HttpError(503, BodyMockError)),
   Answered(ToolResult("object", <<>>)),
   Answered(ToolResult("badtext", <<>>)),
   Answered(ToolResult("object", <<Task("t1", At(90 * HourMs), FALSE)>>)),
   Answered(ToolResult("text", <<Task("t1", At(90 * HourMs), TRUE),
                                  Untitled(Text(""), Text("b2"), At(100 * HourMs), FALSE)>>)),
   Answered(ToolResult("object", <<Task("t1", Absent, FALSE),
                                    Task("t2", At(110 * HourMs), FALSE)>>)),
   Answered(ToolResult("text", <<Task("t1", At(90 * HourMs), FALSE),
                                  Untitled(NoText, NoText, At(95 * HourMs), FALSE)>>))}
AnswerPatterns == UNION {[1..n -> TaskAnswerSamples] : n \in 1..MaxPeriod}
SampleSizes == (0..MaxContacts) \cup {FollowupContacts, FollowupContacts + 1}
ContactIds(size) == [i \in 1..size |-> [id |-> i]]
TaskAnswer(i) == mon.answers[((i - 1) % Len(mon.answers)) + 1]
NoFollowupFinding == [check |-> "none", count |-> 0, items |-> <<>>, hasMore |-> FALSE]

\* checkMissedFollowups(actions, config) is called: up to its first await, the
\* contact search is issued.
FollowupsInit ==
  /\ CoreOff /\ ParseOff /\ OpOff
  /\ \E nowMs \in NowSamples : \E size \in SampleSizes : \E answers \in AnswerPatterns :
       mon = [pc |-> "searching", now |-> nowMs, size |-> size, answers |-> answers,
              calls |-> <<[tool |-> "searchContacts", arg |-> FollowupSearchLimit]>>,
              contacts |-> <<>>, index |-> 0, skipped |-> {}, overdue |-> <<>>,
              finding |-> NoFollowupFinding, err |-> NoError]

\* The loop's next step after `index` contacts: the task fetch of the next
\* contact is issued, or the finding is returned.
FollowupsContinue(m) ==
  IF m.index < Len(m.contacts)
  THEN [m EXCEPT !.pc = "fetching",
                 !.calls = Append(m.calls, [tool |-> "getContactTasks",
                                            arg |-> m.contacts[m.index + 1].id])]
  ELSE [m EXCEPT !.pc = "returned", !.finding = FollowupFinding(m.overdue)]

\* The search returns: the first 20 contacts are kept and the loop begins.
FollowupsContactsReturn ==
  /\ mon.pc = "searching"
  /\ \E form \in {"object", "text", "badtext"} :
       mon' = FollowupsContinue(
                [mon EXCEPT !.contacts =
                   FirstN(ParseContent(ToolResult(form, ContactIds(mon.size))),
                          FollowupContacts)])
  /\ UNCHANGED nonMonVars

\* The search throws: so does the check.
FollowupsSearchThrows ==
  /\ mon.pc = "searching"
  /\ \E err \in CheckErrorSamples : mon' = [mon EXCEPT !.pc = "failed", !.err = err]
  /\ UNCHANGED nonMonVars

\* A contact's tasks arrive: its overdue tasks are collected and the loop
\* goes on.
FollowupsTasksReturn ==
  /\ mon.pc = "fetching"
  /\ ~TaskAnswer(mon.index + 1).throws
  /\ mon' = FollowupsContinue(
              [mon EXCEPT !.index = mon.index + 1,
                          !.overdue = mon.overdue \o
                             OverdueOf(mon.contacts[mon.index + 1].id,
                                       ParseContent(TaskAnswer(mon.index + 1).result),
                                       mon.now)])
  /\ UNCHANGED nonMonVars

\* Variant: a failed task fetch ends the loop.
SkipsTheRest(m) == [m EXCEPT !.index = Len(m.contacts), !.skipped = m.skipped \cup {m.index + 1}]

\* catch {}: the contact is skipped.
SkipsContact(m) == [m EXCEPT !.index = m.index + 1, !.skipped = m.skipped \cup {m.index + 1}]

\* A contact's task fetch throws: the loop goes on with the next contact.
FollowupsTasksThrow ==
  /\ mon.pc = "fetching"
  /\ TaskAnswer(mon.index + 1).throws
  /\ mon' = FollowupsContinue(SkipsContact(mon))
  /\ UNCHANGED nonMonVars

FollowupsNext ==
  \/ FollowupsContactsReturn \/ FollowupsSearchThrows
  \/ FollowupsTasksReturn \/ FollowupsTasksThrow

\* One missed-follow-up check.
SpecFollowups == FollowupsInit /\ [][FollowupsNext]_vars

----------------------------------------------------------------------------
(* The pipeline-bottleneck check: checkPipelineBottlenecks *)

DefaultStuckDays == 7
BottleneckPipelines == 3
GroupItemsLimit == 5

\* config.thresholds?.stuck_opportunity_days || 7
StuckThreshold(configured) == IF configured = 0 THEN DefaultStuckDays ELSE configured

\* Date.now() - stuckDays * 86_400_000
StuckCutoff(nowMs, days) == nowMs - days * DayMs

\* opp.lastStageChangeAt || opp.updatedAt || opp.createdAt
StageDate(opp) ==
  IF opp.lastStageChangeAt.has THEN opp.lastStageChangeAt
  ELSE IF opp.updatedAt.has THEN opp.updatedAt
  ELSE opp.createdAt

\* stageDate && new Date(stageDate) < cutoff
IsStuck(opp, cutoff) == StageDate(opp).has /\ StageDate(opp).at < cutoff

\* pipeline.stages?.find(s => s.id === opp.pipelineStageId)?.name || opp.pipelineStageId
\* (an empty name counts as none)
StageName(pipeline, opp) ==
  LET hit == SelectSeq(pipeline.stages, LAMBDA s : s.id = opp.pipelineStageId)
  IN IF hit # <<>> /\ hit[1].name # <<>> THEN hit[1].name ELSE opp.pipelineStageId

\* TypeError: stageGroups[stageName].push is not a function
StrPushNotFunction == <<"s","t","a","g","e","G","r","o","u","p","s","[","s","t","a","g","e","N","a","m","e","]",".","p","u","s","h"," ","i","s"," ","n","o","t"," ","a"," ","f","u","n","c","t","i","o","n">>
PushTypeError == [kind |-> "type", type |-> "TypeError", status |-> 0,
                  message |-> StrPushNotFunction]

\* The keys of stageGroups as Object.entries(stageGroups) lists them, `names`
\* being the stage names of the stuck opportunities in the order met. For a
\* name that Object.prototype has a member of, !stageGroups[stageName] finds
\* that member: no array is set and the push throws.
GroupKeys(names) ==
  IF \E i \in 1..Len(names) : names[i] \in ObjectPrototypeMembers
  THEN [throws |-> TRUE, keys |-> <<>>]
  ELSE [throws |-> FALSE, keys |-> ObjectKeys(names)]

\* The entries one pipeline adds to `bottlenecks`: one for each stage name
\* with a stuck opportunity; or the grouping throws.
PipelineBottlenecks(pipeline, opps, cutoff) ==
  LET stuck == SelectSeq(opps, LAMBDA o : IsStuck(o, cutoff))
      grouped == GroupKeys([i \in 1..Len(stuck) |-> StageName(pipeline, stuck[i])])
      keys == grouped.keys
  IN [throws |-> grouped.throws,
      err |-> IF grouped.throws THEN PushTypeError ELSE NoError,
      entries |->
        [g \in 1..Len(keys) |->
           LET group == SelectSeq(stuck, LAMBDA o : StageName(pipeline, o) = keys[g])
           IN [pipeline |-> pipeline.name, stage |-> keys[g], count |-> Len(group),
               totalValue |-> SumValues(group),
               items |-> FirstN([i \in 1..Len(group) |-> group[i].id], GroupItemsLimit)]]]

\* bottlenecks.reduce((sum, b) => sum + b.count, 0)
RECURSIVE SumCounts(_)
SumCounts(entries) ==
  IF entries = <<>> THEN 0 ELSE Head(entries).count + SumCounts(Tail(entries))

\* What checkPipelineBottlenecks returns.
BottleneckFinding(bottlenecks, days) ==
  [check |-> CheckIds[3], count |-> SumCounts(bottlenecks), threshold |-> days,
   bottlenecks |-> bottlenecks]

\* Inputs. The CRM holds `size` pipelines; the odd ones list the stages s1
\* and s2 under two names and s3 under the name constructor, the even ones
\* the stages s1 and s3 under one name and the stage 2 without a name.
\* What it answers to the opportunity search is one answer for the odd and one
\* for the even pipelines: an error, text that is not JSON, or a list of
\* opportunities.
PipelineNames == <<"Audit", "Renewal", "Upsell", "Referral">>
OddStages == <<[id |-> StageS1, name |-> NameRequested], [id |-> StageS2, name |-> NameSent],
               [id |-> StageS3, name |-> NameConstructor]>>
EvenStages == <<[id |-> StageS1, name |-> NameOpen], [id |-> StageS3, name |-> NameOpen],
                [id |-> <<"2">>, name |-> <<>>]>>
PipelinesHeld(size) ==
  [i \in 1..size |-> [id |-> i, name |-> PipelineNames[i],
                      stages |-> IF i % 2 = 1 THEN OddStages ELSE EvenStages]]
StuckNowSamples == {20 * DayMs}
StuckConfigSamples == {0, 5}
StuckOppSamples ==
  {[pipelineStageId |-> StageS1, priced |-> TRUE, monetaryValue |-> 100,
    lastStageChangeAt |-> At(10 * DayMs), updatedAt |-> Absent, createdAt |-> Absent],
   [pipelineStageId |-> StageS1, priced |-> FALSE, monetaryValue |-> 0,
    lastStageChangeAt |-> Absent, updatedAt |-> At(10 * DayMs), createdAt |-> At(5 * DayMs)],
   [pipelineStageId |-> StageS3, priced |-> TRUE, monetaryValue |-> 250,
    lastStageChangeAt |-> At(13 * DayMs), updatedAt |-> Absent, createdAt |-> Absent],
   [pipelineStageId |-> StageS2, priced |-> TRUE, monetaryValue |-> 50,
    lastStageChangeAt |-> At(16 * DayMs), updatedAt |-> At(10 * DayMs), createdAt |-> At(5 * DayMs)],
   [pipelineStageId |-> <<"2">>, priced |-> TRUE, monetaryValue |-> 30,
    lastStageChangeAt |-> At(10 * DayMs), updatedAt |-> Absent, createdAt |-> Absent]}
OppWithId(o, j) ==
  [id |-> j, pipelineStageId |-> o.pipelineStageId, priced |-> o.priced,
   monetaryValue |-> o.monetaryValue, lastStageChangeAt |-> o.lastStageChangeAt,
   updatedAt |-> o.updatedAt, createdAt |-> o.createdAt]
StuckOppLists ==
  UNION {{[j \in 1..n |-> OppWithId(os[j], j)] : os \in [1..n -> StuckOppSamples]}
         : n \in 0..MaxOpps}
OppAnswerSamples ==
  {Answered(ToolResult("object", os)) : os \in StuckOppLists} \cup
  {Answered(ToolResult("badtext", <<>>)), Thrown(HttpError(503, BodyMockError))}
PipelineSizes == (0..MaxPipes) \cup {BottleneckPipelines, BottleneckPipelines + 1}
OppAnswer(i) == IF i % 2 = 1 THEN mon.answers.odd ELSE mon.answers.even
NoBottleneckFinding == [check |-> "none", count |-> 0, threshold |-> 0, bottlenecks |-> <<>>]

\* checkPipelineBottlenecks(actions, config) is called.
BottleneckInit ==
  /\ CoreOff /\ ParseOff /\ OpOff
  /\ \E nowMs \in StuckNowSamples : \E configured \in StuckConfigSamples :
     \E size \in PipelineSizes : \E answers \in [odd : OppAnswerSamples, even : OppAnswerSamples] :
       mon = [pc |-> "called", now |-> nowMs, configured |-> configured,
              size |-> size, answers |-> answers, threshold |-> 0, cutoff |-> 0,
              calls |-> <<>>, pipelines |-> <<>>, index |-> 0, bottlenecks |-> <<>>,
              finding |-> NoBottleneckFinding, err |-> NoError]

\* Up to the first await: the threshold and the cutoff are fixed and the
\* pipelines are asked for.
BottleneckStarts ==
  /\ mon.pc = "called"
  /\ mon' = [mon EXCEPT !.pc = "listing",
                        !.threshold = StuckThreshold(mon.configured),
                        !.cutoff = StuckCutoff(mon.now, StuckThreshold(mon.configured)),
                        !.calls = <<[tool |-> "getPipelines", arg |-> 0]>>]
  /\ UNCHANGED nonMonVars

\* The loop's next step after `index` pipelines: the opportunities of the
\* next of the first three pipelines are searched, or the finding is returned.
BottleneckContinue(m) ==
  IF m.index < Len(FirstN(m.pipelines, BottleneckPipelines))
  THEN [m EXCEPT !.pc = "searching",
                 !.calls = Append(m.calls, [tool |-> "searchOpportunities",
                                            arg |-> m.pipelines[m.index + 1].id])]
  ELSE [m EXCEPT !.pc = "returned",
                 !.finding = BottleneckFinding(m.bottlenecks, m.threshold)]

\* The pipelines arrive and the loop begins.
BottleneckPipelinesReturn ==
  /\ mon.pc = "listing"
  /\ \E form \in {"object", "text", "badtext"} :
       mon' = BottleneckContinue(
                [mon EXCEPT !.pipelines = ParseContent(ToolResult(form, PipelinesHeld(mon.size)))])
  /\ UNCHANGED nonMonVars

\* A pipeline's opportunities arrive: its stuck ones are grouped and the loop
\* goes on, or the grouping throws and so does the check.
BottleneckOppsReturn ==
  /\ mon.pc = "searching"
  /\ ~OppAnswer(mon.index + 1).throws
  /\ LET added == PipelineBottlenecks(mon.pipelines[mon.index + 1],
                                      ParseContent(OppAnswer(mon.index + 1).result),
                                      mon.cutoff)
     IN mon' = IF added.throws THEN [mon EXCEPT !.pc = "failed", !.err = added.err]
               ELSE BottleneckContinue(
                      [mon EXCEPT !.index = mon.index + 1,
                                  !.bottlenecks = mon.bottlenecks \o added.entries])
  /\ UNCHANGED nonMonVars

\* Either await throws: so does the check.
BottleneckCallThrows ==
  /\ \/ mon.pc = "listing" /\ \E err \in CheckErrorSamples :
          mon' = [mon EXCEPT !.pc = "failed", !.err = err]
     \/ mon.pc = "searching" /\ OppAnswer(mon.index + 1).throws /\
          mon' = [mon EXCEPT !.pc = "failed", !.err = OppAnswer(mon.index + 1).err]
  /\ UNCHANGED nonMonVars

BottleneckNext ==
  \/ BottleneckStarts \/ BottleneckPipelinesReturn
  \/ BottleneckOppsReturn \/ BottleneckCallThrows

\* One pipeline-bottleneck check.
SpecBottlenecks == BottleneckInit /\ [][BottleneckNext]_vars

----------------------------------------------------------------------------
(* The slow-response check: checkSlowResponses *)

MinuteMs == 60000
DefaultSlowMinutes == 30
SlowSearchLimit == 30
SlowContacts == 15

\* config.thresholds?.slow_response_minutes || 30
SlowThreshold(configured) == IF configured = 0 THEN DefaultSlowMinutes ELSE configured

\* new Date(a) > new Date(b): false when either date is missing.
DatedAfter(a, b) == a.has /\ b.has /\ a.at > b.at

\* msgList.find(pred): the position of the first message pred holds for, or 0.
FirstWhere(msgs, Pred(_)) ==
  LET hits == {i \in 1..Len(msgs) : Pred(msgs[i])}
  IN IF hits = {} THEN 0 ELSE CHOOSE i \in hits : \A j \in hits : i <= j

\* msgList.find(m => m.direction === 'inbound')
FirstInbound(msgs) == FirstWhere(msgs, LAMBDA m : m.direction = "inbound")

\* Variant: the first outbound message answers, whenever it was sent.
AnyOutbound(msgs) == FirstWhere(msgs, LAMBDA m : m.direction = "outbound")

\* msgList.find(m => m.direction === 'outbound' && firstInbound &&
\*                   new Date(m.dateAdded) > new Date(firstInbound.dateAdded))
FirstOutbound(msgs) ==
  IF FirstInbound(msgs) = 0 THEN 0
  ELSE FirstWhere(msgs, LAMBDA m : /\ m.direction = "outbound"
                                   /\ DatedAfter(m.dateAdded, msgs[FirstInbound(msgs)].dateAdded))

\* new Date(firstOutbound.dateAdded) - new Date(firstInbound.dateAdded)
ResponseMs(msgs) ==
  msgs[FirstOutbound(msgs)].dateAdded.at - msgs[FirstInbound(msgs)].dateAdded.at

\* responseMs / 60_000 > thresholdMin
IsSlow(msgs, minutes) ==
  /\ Len(msgs) >= 2
  /\ FirstInbound(msgs) # 0
  /\ FirstOutbound(msgs) # 0
  /\ ResponseMs(msgs) > minutes * MinuteMs

\* Math.round(responseMs / 60_000), for a positive time
RoundedMinutes(ms) == (2 * ms + MinuteMs) \div (2 * MinuteMs)

\* The entry one contact's history adds to `slow`, if any.
SlowOf(contactId, msgs, minutes) ==
  IF IsSlow(msgs, minutes)
  THEN <<[contactId |-> contactId, responseTime |-> RoundedMinutes(ResponseMs(msgs)),
          threshold |-> minutes]>>
  ELSE <<>>

\* What checkSlowResponses returns.
SlowFinding(slow, minutes) ==
  [check |-> CheckIds[4], count |-> Len(slow), threshold |-> minutes,
   items |-> FirstN(slow, ItemsLimit)]

\* Inputs. The CRM holds `size` contacts; what getConversationHistory gives
\* for the i-th contact repeats with the period of `answers`: an error, text
\* that is not JSON, or a list of messages around the instant T0.
T0 == 100 * HourMs
Message(direction, dateAdded) == [direction |-> direction, dateAdded |-> dateAdded]
Minute(n) == At(T0 + n * MinuteMs)
SlowConfigSamples == {0, 20}
HistoryAnswerSamples ==
  {Thrown(HttpError(503, BodyMockError)),
   Answered(ToolResult("badtext", <<>>)),
   Answered(ToolResult("object", <<Message("inbound", Minute(0))>>)),
   Answered(ToolResult("object", <<Message("inbound", Minute(0)), Message("outbound", Minute(30))>>)),
   Answered(ToolResult("text", <<Message("inbound", Minute(0)),
                                 Message("outbound", At(T0 + 30 * MinuteMs + 1))>>)),
   Answered(ToolResult("text", <<Message("outbound", Minute(0)), Message("inbound", Minute(5)),
                                 Message("outbound", Minute(50))>>)),
   Answered(ToolResult("object", <<Message("inbound", Minute(40)), Message("outbound", Minute(0)),
                                   Message("inbound", Minute(1))>>)),
   Answered(ToolResult("object", <<Message("inbound", Absent), Message("outbound", Minute(50))>>))}
HistoryPatterns == UNION {[1..n -> HistoryAnswerSamples] : n \in 1..MaxPeriod}
SlowSizes == (0..MaxContacts) \cup {SlowContacts, SlowContacts + 1}
HistoryAnswer(i) == mon.answers[((i - 1) % Len(mon.answers)) + 1]
NoSlowFinding == [check |-> "none", count |-> 0, threshold |-> 0, items |-> <<>>]

\* checkSlowResponses(actions, config) is called: up to its first await, the
\* threshold is fixed and the contact search is issued.
SlowInit ==
  /\ CoreOff /\ ParseOff /\ OpOff
  /\ \E configured \in SlowConfigSamples : \E size \in SlowSizes :
     \E answers \in HistoryPatterns :
       mon = [pc |-> "searching", configured |-> configured,
              threshold |-> SlowThreshold(configured), size |-> size, answers |-> answers,
              calls |-> <<[tool |-> "searchContacts", arg |-> SlowSearchLimit]>>,
              contacts |-> <<>>, index |-> 0, skipped |-> {}, slow |-> <<>>,
              finding |-> NoSlowFinding, err |-> NoError]

\* The loop's next step after `index` contacts: the history of the next
\* contact is asked for, or the finding is returned.
SlowContinue(m) ==
  IF m.index < Len(m.contacts)
  THEN [m EXCEPT !.pc = "fetching",
                 !.calls = Append(m.calls, [tool |-> "getConversationHistory",
                                            arg |-> m.contacts[m.index + 1].id])]
  ELSE [m EXCEPT !.pc = "returned", !.finding = SlowFinding(m.slow, m.threshold)]

\* The search returns: the first 15 contacts are kept and the loop begins.
SlowContactsReturn ==
  /\ mon.pc = "searching"
  /\ \E form \in {"object", "text", "badtext"} :
       mon' = SlowContinue(
                [mon EXCEPT !.contacts =
                   FirstN(ParseContent(ToolResult(form, ContactIds(mon.size))), SlowContacts)])
  /\ UNCHANGED nonMonVars

\* The search throws: so does the check.
SlowSearchThrows ==
  /\ mon.pc = "searching"
  /\ \E err \in CheckErrorSamples : mon' = [mon EXCEPT !.pc = "failed", !.err = err]
  /\ UNCHANGED nonMonVars

\* A contact's history arrives: the contact is reported if the first answer
\* to its first inbound message took too long, and the loop goes on.
SlowHistoryReturns ==
  /\ mon.pc = "fetching"
  /\ ~HistoryAnswer(mon.index + 1).throws
  /\ mon' = SlowContinue(
              [mon EXCEPT !.index = mon.index + 1,
                          !.slow = mon.slow \o
                             SlowOf(mon.contacts[mon.index + 1].id,
                                    ParseContent(HistoryAnswer(mon.index + 1).result),
                                    mon.threshold)])
  /\ UNCHANGED nonMonVars

\* A contact's history fetch throws: catch {}, the loop goes on.
SlowHistoryThrows ==
  /\ mon.pc = "fetching"
  /\ HistoryAnswer(mon.index + 1).throws
  /\ mon' = SlowContinue(SkipsContact(mon))
  /\ UNCHANGED nonMonVars

SlowNext ==
  \/ SlowContactsReturn \/ SlowSearchThrows \/ SlowHistoryReturns \/ SlowHistoryThrows

\* One slow-response check.
SpecSlow == SlowInit /\ [][SlowNext]_vars

----------------------------------------------------------------------------
(* runAllChecks: what one run asks of the limiter *)

\* createActions makes one limiter, with the defaults, for the four checks of
\* a run; every facade function goes through call(), which awaits
\* limiter.acquire() first and then makes the tool call (withRetry repeats the
\* tool call, not the acquire). A run is followed here call by call, each call
\* in two steps (call() is entered and takes its slot; the tool call is
\* answered or rejected), the four checks interleaving as Promise.allSettled
\* lets them, in a world that fixes how many records the CRM holds, which
\* contacts have a conversation, which calls are rejected and how long a
\* rejected call takes to be rejected: no time (an answer withRetry does not
\* retry), the backoffs of withRetry (an answer it retries until it gives
\* up) or the timeout of the request (its abort timer fires). Time passes in
\* a run only so; once the window of the limiter has elapsed, the next
\* acquire() restarts it.

\* The records a check's loop visits when the CRM holds `size` of them: the
\* stale-lead check makes no call per contact.
LoopItems(k, size) ==
  CASE k = 1 -> <<>>
    [] k = 2 -> FirstN(ContactIds(size), FollowupContacts)
    [] k = 3 -> FirstN(PipelinesHeld(size), BottleneckPipelines)
    [] k = 4 -> FirstN(ContactIds(size), SlowContacts)

\* getConversationHistory: conversations?.conversations?.length > 0 for the
\* i-th contact, in the world of this run.
HasConversation(i) ==
  CASE mon.convs = "all" -> TRUE
    [] mon.convs = "none" -> FALSE
    [] mon.convs = "odd" -> i % 2 = 1

\* Which calls of the run are rejected: none, the first call of every check,
\* or the calls made for every second record (for a contact's conversation
\* history: the search of every second contact, and the message fetch of
\* every fourth).
CallThrows(k, c) ==
  CASE mon.fails = "never" -> FALSE
    [] mon.fails = "first" -> c.pc = "start"
    [] mon.fails = "records" ->
         /\ c.pc = "item"
         /\ IF c.half THEN (c.index + 1) % 4 = 3 ELSE (c.index + 1) % 2 = 0

\* How many records the CRM holds for the search of check k: none, a few, or
\* one more than the largest number a loop visits.
BudgetSizes(k) ==
  CASE k = 1 -> {0}
    [] k = 2 -> {0, FewContacts, FollowupContacts + 1}
    [] k = 3 -> {0, BottleneckPipelines + 1}
    [] k = 4 -> {0, FewContacts, FollowupContacts + 1}

RunStart ==
  [pc |-> "start", items |-> 0, index |-> 0, half |-> FALSE, slots |-> 0,
   called |-> FALSE, sentAt |-> 0]

\* withRetry: the delays before the attempts 1 to maxRetries of a call whose
\* every attempt is answered at once by an error it retries, without jitter.
RetriesExhaustedMs ==
  BackoffBase(DefaultBaseDelayMs, 0) + BackoffBase(DefaultBaseDelayMs, 1)
  + BackoffBase(DefaultBaseDelayMs, 2)

\* The time between the sending of a call's first request and its rejection.
RejectLags == {0, RetriesExhaustedMs, DefaultTimeoutMs}

\* const actions = createActions(locationConfig): a new limiter with the
\* default options, one acquire() position per check.
BudgetInit ==
  /\ now = 0
  /\ nticks = 0
  /\ opts = [maxPerWindow |-> DefaultMaxPerWindow, windowMs |-> DefaultWindowMs,
             maxPerDay |-> DefaultMaxPerDay]
  /\ windowStart = 0
  /\ windowCount = 0
  /\ dayStart = 0
  /\ dayCount = 0
  /\ acq = [k \in Checks |-> Idle]
  /\ winCalls = 0
  /\ winAdmits = 0
  /\ dayAdmits = 0
  /\ ev = [op |-> "init"]
  /\ RetryOff /\ ClientOff /\ SseOff /\ XferOff /\ PeerOff /\ ParseOff /\ OpOff
  /\ \E s2 \in BudgetSizes(2) : \E s3 \in BudgetSizes(3) : \E s4 \in BudgetSizes(4) :
     \E convs \in {"all", "none", "odd"} : \E fails \in {"never", "first", "records"} :
     \E lag \in RejectLags :
       /\ s2 = s4
       /\ lag > 0 => fails # "never" /\ s2 <= FewContacts
       /\ mon = [pc |-> "budget", sizes |-> <<0, s2, s3, s4>>, convs |-> convs,
                 fails |-> fails, lag |-> lag,
                 check |-> [k \in Checks |-> RunStart]]

\* The loop's next step: the next record's first call, or the return.
BudgetLoop(c) ==
  IF c.index < c.items THEN [c EXCEPT !.pc = "item", !.half = FALSE]
                       ELSE [c EXCEPT !.pc = "returned"]

\* What a rejected call does to check k: the follow-up and slow-response
\* loops catch it and go on with the next contact; anywhere else the check
\* rejects.
BudgetThrown(c, k) ==
  IF c.pc = "item" /\ k \in {2, 4} THEN BudgetLoop([c EXCEPT !.index = c.index + 1])
                                   ELSE [c EXCEPT !.pc = "failed"]

\* call(toolName, args) is entered by check k: `await limiter.acquire()`
\* runs to its return or to its first suspension. Admitted, the caller has
\* its slot and withRetry hands the request of the tool call to fetch; a
\* caller the limiter makes wait is suspended; one it refuses has its call
\* rejected.
BudgetCall(k) ==
  /\ mon.pc = "budget"
  /\ mon.check[k].pc \in {"start", "item"}
  /\ ~mon.check[k].called
  /\ LET out == AcquireOutcome(now)
         c == mon.check[k]
     IN mon' = [mon EXCEPT !.check[k] =
                  IF out = "admit"
                  THEN [c EXCEPT !.called = TRUE, !.slots = c.slots + 1,
                                 !.sentAt = now]
                  ELSE IF out = "sleep" THEN [c EXCEPT !.pc = "suspended"]
                  ELSE BudgetThrown(c, k)]
  /\ AcquireEnter(k, now)
  /\ UNCHANGED <<rt, clientVars, sse, xfer, peer, parse, op>>

\* The time at which the call in flight of a check is rejected: the lag of
\* this run after its request was sent, and not before the current time.
RejectedAt(c) == IF c.sentAt + mon.lag > now THEN c.sentAt + mon.lag ELSE now

\* The tool call in flight of check k settles at time t, after which the
\* check stands at `next`.
BudgetSettles(k, next, t) ==
  /\ mon' = [mon EXCEPT !.check[k] = [next EXCEPT !.called = FALSE]]
  /\ now' = t
  /\ ev' = [op |-> "settled"]
  /\ UNCHANGED limState
  /\ UNCHANGED <<rt, clientVars, sse, xfer, peer, parse, op>>

\* The check's first call (searchContacts, getPipelines) returns: the loop
\* begins over the records kept.
BudgetSearchReturns(k) ==
  /\ mon.pc = "budget" /\ mon.check[k].pc = "start" /\ mon.check[k].called
  /\ ~CallThrows(k, mon.check[k])
  /\ BudgetSettles(k, BudgetLoop([mon.check[k] EXCEPT
                                    !.items = Len(LoopItems(k, mon.sizes[k]))]), now)

\* The check's first call throws.
BudgetSearchThrows(k) ==
  /\ mon.pc = "budget" /\ mon.check[k].pc = "start" /\ mon.check[k].called
  /\ CallThrows(k, mon.check[k])
  /\ BudgetSettles(k, BudgetThrown(mon.check[k], k), RejectedAt(mon.check[k]))

\* A call made for a record returns. getConversationHistory makes a second
\* call (get-messages) when the first (search-conversation) found a
\* conversation; the other loops make one call per record.
BudgetItemReturns(k) ==
  /\ mon.pc = "budget" /\ mon.check[k].pc = "item" /\ mon.check[k].called
  /\ ~CallThrows(k, mon.check[k])
  /\ LET c == mon.check[k]
     IN BudgetSettles(k, IF k = 4 /\ ~c.half /\ HasConversation(c.index + 1)
                         THEN [c EXCEPT !.half = TRUE]
                         ELSE BudgetLoop([c EXCEPT !.index = c.index + 1]), now)

\* A call made for a record throws.
BudgetItemThrows(k) ==
  /\ mon.pc = "budget" /\ mon.check[k].pc = "item" /\ mon.check[k].called
  /\ CallThrows(k, mon.check[k])
  /\ BudgetSettles(k, BudgetThrown(mon.check[k], k), RejectedAt(mon.check[k]))

BudgetNext ==
  \/ \E k \in Checks : BudgetCall(k)
  \/ \E k \in Checks : BudgetSearchReturns(k)
  \/ \E k \in Checks : BudgetSearchThrows(k)
  \/ \E k \in Checks : BudgetItemReturns(k)
  \/ \E k \in Checks : BudgetItemThrows(k)

\* The limiter's side of one run of the four checks.
SpecBudget == BudgetInit /\ [][BudgetNext]_vars

----------------------------------------------------------------------------
(* C21: when the limiter's daily cap is reached as a facade operation comes  *)
(* to call(), the operation fails in that step with the quota error: no      *)
(* tools/call request is sent, no backoff timer is set, and the caller does  *)
(* not sleep until the window resets, even when the window is full too.      *)
C21_QuotaFailsWithoutRequest ==
  [][\A p \in Tasks :
       (/\ ev'.op = "acquire" /\ ev'.p = p
        /\ now' - dayStart < DayMs
        /\ dayCount >= opts.maxPerDay)
       => /\ task'[p].pc = "failed"
          /\ task'[p].err = QuotaError(opts.maxPerDay)
          /\ task'[p].req = NoRequest
          /\ nsent' = nsent
          /\ requestId' = requestId
          /\ acq'[p].pc = "idle"
          /\ dayCount' = dayCount /\ windowCount' = windowCount]_vars

\* An operation was rejected by the day cap while the window was full as well.
C21_Witness ==
  \E p \in Tasks :
    /\ ev.op = "acquire" /\ ev.p = p /\ ev.outcome = "quota"
    /\ task[p].pc = "failed" /\ task[p].kind = "facade"
    /\ task[p].err = QuotaError(opts.maxPerDay)
    /\ dayCount >= opts.maxPerDay
    /\ windowCount >= opts.maxPerWindow
    /\ now - windowStart < opts.windowMs

----------------------------------------------------------------------------
\* The frame is well formed: its payload is a JSON value.
WellFormed(frame) == JsonParse(frame.payload).ok

\* The stream is made of data lines that are each ended by a blank line.
BlankLineTerminated(frames) == \A i \in 1..Len(frames) : frames[i].newlines = 2

\* The values of the well-formed frames, in stream order.
RECURSIVE FrameValues(_)
FrameValues(frames) ==
  IF frames = <<>> THEN <<>>
  ELSE (IF WellFormed(Head(frames)) THEN <<JsonParse(Head(frames).payload).value>> ELSE <<>>)
       \o FrameValues(Tail(frames))

(* C22: a stream of blank-line-terminated data frames that arrives as one    *)
(* chunk decodes to the values of its well-formed frames, in stream order: a *)
(* frame with a malformed payload is dropped and the frames around it decode *)
(* as they would without it.                                                 *)
C22_DecodesFramesInOrder ==
  (/\ parse.pc = "done"
   /\ parse.nchunks <= 1
   /\ BlankLineTerminated(parse.frames))
  => parse.messages = FrameValues(parse.frames)

\* Two frames in one chunk, the first malformed: the second is decoded.
C22_Witness ==
  /\ parse.pc = "done"
  /\ parse.nchunks = 1
  /\ Len(parse.frames) = 2
  /\ BlankLineTerminated(parse.frames)
  /\ ~WellFormed(parse.frames[1]) /\ parse.frames[1].payload # <<>>
  /\ WellFormed(parse.frames[2])
  /\ parse.messages = <<JsonParse(parse.frames[2].payload).value>>

----------------------------------------------------------------------------
\* The identifiers the caller named, in input order.
Targets == IF op.arg.array THEN op.arg.items ELSE <<op.arg.items[1]>>

(* C23: a batch tagging operation issues its calls one at a time, the k-th   *)
(* call for the k-th identifier of the input (a single identifier counting   *)
(* as a one-element list); when it returns, it has made one call per         *)
(* identifier and returns one entry per identifier in input order; when a    *)
(* call fails it rejects with the error and returns no list.                 *)
C23_OneCallPerIdentifier ==
  op.pc # "off" =>
    /\ Len(op.calls) <= Len(Targets)
    /\ \A k \in 1..Len(op.calls) :
         /\ op.calls[k].contactId = Targets[k]
         /\ op.calls[k].tool = (IF op.kind = "tagContacts" THEN "add-tags" ELSE "remove-tags")
    /\ Len(op.calls) - Len(op.results) = (IF op.pc = "calling" THEN 1
                                          ELSE IF op.pc = "failed" /\ op.calls # <<>> THEN 1
                                          ELSE 0)
    /\ (op.pc = "returned" =>
          /\ op.out.defined
          /\ Len(op.calls) = Len(Targets)
          /\ Len(op.out.list) = Len(Targets)
          /\ \A k \in 1..Len(Targets) : op.out.list[k].contactId = Targets[k])
    /\ (op.pc = "failed" => ~op.out.defined /\ op.err # NoError)
    /\ (op.pc # "returned" => ~op.out.defined)

\* Two different identifiers were tagged, one call each, and both entries are
\* returned in input order.
C23_Witness ==
  /\ op.pc = "returned" /\ op.kind = "tagContacts"
  /\ Len(op.calls) = 2 /\ Len(op.out.list) = 2
  /\ op.out.list[1].contactId = "c2" /\ op.out.list[2].contactId = "c1"
  /\ op.out.list[1].result # op.out.list[2].result

----------------------------------------------------------------------------
(* C24: once the conversation search has returned a result that can be       *)
(* decoded, getConversationHistory returns { messages: [] } without a second *)
(* call when the result holds no conversation, and otherwise issues exactly  *)
(* one get-messages call, for the first conversation of the result; no       *)
(* get-messages call is issued before the search has returned.               *)
C24_HistoryOfFirstConversation ==
  op.pc # "off" =>
    /\ Len(op.calls) <= 2
    /\ (op.calls # <<>> =>
          op.calls[1].tool = "search-conversation" /\ op.calls[1].key = op.arg.items[1])
    /\ (Len(op.calls) = 2 => op.results # <<>>)
    /\ (op.results # <<>> /\ op.results[1].form # "badtext" =>
          IF op.results[1].value = <<>>
          THEN /\ op.pc = "returned"
               /\ op.out.value = [form |-> "object", value |-> <<>>]
               /\ Len(op.calls) = 1
          ELSE /\ Len(op.calls) = 2
               /\ op.calls[2].tool = "get-messages"
               /\ op.calls[2].key = op.results[1].value[1])

\* The search found two conversations and the messages of the first one were
\* fetched and returned.
C24_Witness ==
  /\ op.pc = "returned" /\ op.kind = "getConversationHistory"
  /\ Len(op.results[1].value) = 2
  /\ op.results[1].value[1] # op.results[1].value[2]
  /\ Len(op.calls) = 2 /\ op.calls[2].key = op.results[1].value[1]
  /\ op.out.value.value # <<>>

----------------------------------------------------------------------------
\* The pipelines the fetched list holds.
Fetched == op.results[1].value

\* The pipeline the overview is to report on: one with the given id, else the
\* first of the list.
Reported(p) ==
  IF \E i \in 1..Len(Fetched) : Fetched[i].id = op.arg.items[1]
  THEN p.id = op.arg.items[1] /\ \E i \in 1..Len(Fetched) : Fetched[i] = p
  ELSE p = Fetched[1]

(* C25: getPipelineOverview(id) searches opportunities only after the         *)
(* pipeline list was fetched, filtered by the id of the pipeline it reports   *)
(* on: the pipeline with the given id, else the first of the list; with an    *)
(* empty list it returns the error value and searches nothing.                *)
C25_OverviewOfChosenPipeline ==
  op.pc # "off" =>
    /\ Len(op.calls) <= 2
    /\ (op.calls # <<>> => op.calls[1].tool = "get-pipelines")
    /\ (Len(op.calls) = 2 => op.results # <<>>)
    /\ (op.results # <<>> /\ op.results[1].form # "badtext" =>
          IF Fetched = <<>>
          THEN /\ op.pc = "returned"
               /\ op.out.value.error = "No pipeline found"
               /\ Len(op.calls) = 1
          ELSE /\ Len(op.calls) = 2
               /\ op.calls[2].tool = "search-opportunity"
               /\ \E p \in PipelineSamples : Reported(p) /\ op.calls[2].key = p.id
               /\ (op.pc = "returned" =>
                     /\ op.out.value.error = "none"
                     /\ \E p \in PipelineSamples :
                          /\ Reported(p)
                          /\ op.out.value.pipelineId = p.id
                          /\ op.out.value.pipeline = p.name))

\* The pipeline with the given id is the second of the list, and the overview
\* reports on it.
C25_Witness ==
  /\ op.pc = "returned" /\ op.kind = "getPipelineOverview"
  /\ Len(Fetched) = 2
  /\ Fetched[1].id # op.arg.items[1] /\ Fetched[2].id = op.arg.items[1]
  /\ op.out.value.pipelineId = op.arg.items[1]
  /\ op.calls[2].key = op.arg.items[1]
  /\ op.out.value.totalOpportunities = 2

----------------------------------------------------------------------------
(* C26: runAllChecks has all four checks running at once, and returns only   *)
(* when all four have settled; its report then holds, for each check, the    *)
(* value the check returned if it returned one, and otherwise a finding with *)
(* the error's message and without count or items, whatever the other checks *)
(* did.                                                                      *)
C26_EveryCheckReported ==
  /\ (mon.pc = "running" => \A k \in 1..4 : mon.checks[k].status # "idle")
  /\ (mon.pc = "returned" =>
        \A k \in 1..4 :
          /\ mon.checks[k].status \in {"fulfilled", "rejected"}
          /\ (mon.checks[k].status = "fulfilled" =>
                mon.report.checks[k] = mon.checks[k].value)
          /\ (mon.checks[k].status = "rejected" =>
                /\ mon.report.checks[k].failed
                /\ mon.report.checks[k].error = mon.checks[k].reason.message
                /\ mon.report.checks[k].check = CheckIds[k]
                /\ ~mon.report.checks[k].counted
                /\ mon.report.checks[k].items = "none"))

\* One check failed, another found something, and both are in the report.
C26_Witness ==
  /\ mon.pc = "returned"
  /\ mon.checks[1].status = "rejected" /\ mon.report.checks[1].failed
  /\ mon.checks[2].status = "fulfilled" /\ mon.report.checks[2].count = 3
  /\ mon.checks[3].status = "rejected"
  /\ mon.checks[4].status = "fulfilled" /\ mon.report.checks[4].count = 0

\* The lines of the rendered summary.
SummaryLines == SplitLines(mon.report.summary)

\* The counts of the findings without an error, added up.
CountedTotal ==
  LET c(k) == IF mon.report.checks[k].failed THEN 0 ELSE mon.report.checks[k].count
  IN c(1) + c(2) + c(3) + c(4)

(* C27: the summary has, for each check, a line with the check's label that  *)
(* shows the error message if the finding has an error, the none marker if   *)
(* its count is 0 and its count otherwise; the total is the sum of the       *)
(* counts of the findings without error: the all-clear line is there when    *)
(* that sum is 0, and the sum itself when it is not.                         *)
C27_SummaryLines ==
  mon.pc = "returned" =>
    /\ \A k \in 1..4 :
         LET f == mon.report.checks[k]
         IN \E i \in 1..Len(SummaryLines) :
              /\ Includes(SummaryLines[i], CheckLabels[k])
              /\ IF f.failed
                 THEN /\ Includes(SummaryLines[i], <<"E","r","r","o","r">>)
                      /\ Includes(SummaryLines[i], f.error)
                 ELSE IF f.count = 0
                 THEN Includes(SummaryLines[i], <<"N","o","n","e">>)
                 ELSE Includes(SummaryLines[i], NatToStr(f.count) \o <<" ","f","o","u","n","d">>)
    /\ IF CountedTotal = 0
       THEN Includes(mon.report.summary, <<"A","l","l"," ","c","l","e","a","r">>)
       ELSE /\ Includes(mon.report.summary,
                        <<" ">> \o NatToStr(CountedTotal) \o <<" ","t","o","t","a","l"," ","i","s","s","u","e","s">>)
            /\ ~Includes(mon.report.summary, <<"A","l","l"," ","c","l","e","a","r">>)

\* A summary of one error, one check without issues and two checks with 3 and
\* 2 issues: the total is 5.
C27_Witness ==
  /\ mon.pc = "returned"
  /\ mon.report.checks[1].failed
  /\ ~mon.report.checks[2].failed /\ mon.report.checks[2].count = 0
  /\ mon.report.checks[3].count = 3 /\ mon.report.checks[4].count = 2
  /\ Includes(mon.report.summary, <<"5"," ","t","o","t","a","l"," ","i","s","s","u","e","s">>)

----------------------------------------------------------------------------
(* C28: which contacts the stale-lead check flags.                           *)

FlaggedStale(k) == \E i \in 1..Len(mon.finding.items) : mon.finding.items[i].id = k

\* C28 as stated (SpecStale): a fetched contact is flagged exactly when the
\* most recent of its lastActivity, dateUpdated and dateAdded is strictly
\* earlier than the current time minus the hour threshold (default 48).
C28_StaleByMostRecentDate ==
  mon.pc = "returned" =>
    \A k \in 1..Len(mon.contacts) :
      FlaggedStale(k) <=>
        /\ LatestActivity(mon.contacts[k]).has
        /\ LatestActivity(mon.contacts[k]).at
             < mon.now - (IF mon.configured = 0 THEN 48 ELSE mon.configured) * HourMs

\* C28 amended (SpecStale): a fetched contact is flagged exactly when the
\* first present of its lastActivity, dateUpdated and dateAdded, taken in that
\* order, is strictly earlier than the current time minus the hour threshold
\* (default 48); the finding counts the flagged contacts.
C28_StaleByFirstPresentDate ==
  mon.pc = "returned" =>
    /\ \A k \in 1..Len(mon.contacts) :
         LET c == mon.contacts[k]
             first == IF c.lastActivity.has THEN c.lastActivity
                      ELSE IF c.dateUpdated.has THEN c.dateUpdated ELSE c.dateAdded
         IN FlaggedStale(k) <=>
              /\ first.has
              /\ first.at < mon.now - (IF mon.configured = 0 THEN 48 ELSE mon.configured) * HourMs
    /\ mon.finding.count = Cardinality({k \in 1..Len(mon.contacts) : FlaggedStale(k)})

\* Under the default threshold, a contact active 50 hours ago and updated 40
\* hours ago is flagged, and one active exactly 48 hours ago is not.
C28_Witness ==
  /\ mon.pc = "returned"
  /\ mon.configured = 0
  /\ mon.now = 100 * HourMs
  /\ Len(mon.contacts) = 2
  /\ mon.contacts[1].lastActivity = At(50 * HourMs)
  /\ mon.contacts[1].dateUpdated = At(60 * HourMs)
  /\ mon.contacts[2].lastActivity = At(52 * HourMs)
  /\ FlaggedStale(1)
  /\ ~FlaggedStale(2)

----------------------------------------------------------------------------
(* C29: the missed-follow-up check.                                          *)

\* The task fetches issued so far, as the contacts they name.
TaskFetches ==
  LET fetches == SelectSeq(mon.calls, LAMBDA c : c.tool = "getContactTasks")
  IN [i \in 1..Len(fetches) |-> fetches[i].arg]

\* The tasks the CRM holds for the i-th contact, when its fetch succeeds.
TasksHeld(i) ==
  IF TaskAnswer(i).result.form \in {"object", "text"} THEN TaskAnswer(i).result.value ELSE <<>>

\* RECURSIVE: the overdue tasks of the first n contacts whose fetch succeeds,
\* as <<contact, title>> pairs in fetch order (the body stands for the title
\* of a task that has none).
RECURSIVE OverdueHeld(_)
OverdueHeld(n) ==
  IF n = 0 THEN <<>>
  ELSE OverdueHeld(n - 1) \o
       (IF TaskAnswer(n).throws THEN <<>>
        ELSE LET ts == TasksHeld(n)
                 late == SelectSeq([j \in 1..Len(ts) |-> j],
                                   LAMBDA j : /\ ts[j].dueDate.has
                                              /\ ts[j].dueDate.at < mon.now
                                              /\ ~ts[j].completed)
             IN [m \in 1..Len(late) |->
                   <<n, IF ts[late[m]].title \in {NoText, Text("")} THEN ts[late[m]].body
                        ELSE ts[late[m]].title>>])

\* C29 (SpecFollowups): tasks are fetched for the first 20 contacts of the
\* sample at most, in order and one fetch at a time (a fetch is issued only
\* when every earlier one has been answered); when the search succeeds the
\* check returns a finding, whatever fetches fail, and the finding counts
\* exactly the tasks of the successfully fetched contacts that have a due date
\* earlier than now and are not completed, and lists them in order, up to ten.
C29_OverdueTasksOfFetchedContacts ==
  /\ mon.pc \in {"fetching", "returned"} =>
       /\ Len(TaskFetches) <= 20
       /\ Len(TaskFetches) = mon.index + (IF mon.pc = "fetching" THEN 1 ELSE 0)
       /\ \A i \in 1..Len(TaskFetches) : TaskFetches[i] = i
  /\ mon.pc = "returned" =>
       LET n == IF Len(mon.contacts) < 20 THEN Len(mon.contacts) ELSE 20
           held == OverdueHeld(n)
       IN /\ Len(TaskFetches) = n
          /\ mon.err = NoError
          /\ mon.finding.check = "missed_followups"
          /\ mon.finding.count = Len(held)
          /\ Len(mon.finding.items) = (IF Len(held) < 10 THEN Len(held) ELSE 10)
          /\ \A k \in 1..Len(mon.finding.items) :
               <<mon.finding.items[k].contactId, mon.finding.items[k].taskTitle>> = held[k]
  /\ mon.pc # "failed" => mon.err = NoError

\* Of 21 contacts, the odd ones fail to be fetched and the even ones have one
\* overdue task each: the check returns the ten tasks of contacts 2 to 20.
C29_Witness ==
  /\ mon.pc = "returned"
  /\ mon.size = 21
  /\ Len(mon.contacts) = 20
  /\ mon.skipped = {1, 3, 5, 7, 9, 11, 13, 15, 17, 19}
  /\ mon.finding.count = 10
  /\ mon.finding.items[10].contactId = 20
  /\ Len(TaskFetches) = 20

----------------------------------------------------------------------------
(* C30: the pipeline-bottleneck check.                                       *)

\* The opportunities the CRM holds for the i-th pipeline.
OppsHeld(i) ==
  IF OppAnswer(i).result.form \in {"object", "text"} THEN OppAnswer(i).result.value ELSE <<>>

\* The name of the stage of an opportunity of the i-th pipeline: the name the
\* pipeline lists for the stage, or the stage's identifier when it lists none.
StageOf(i, o) ==
  LET listed == {k \in 1..Len(mon.pipelines[i].stages) :
                   mon.pipelines[i].stages[k].id = o.pipelineStageId}
      first == mon.pipelines[i].stages[CHOOSE k \in listed : \A l \in listed : k <= l]
  IN IF listed = {} \/ first.name = <<>> THEN o.pipelineStageId ELSE first.name

\* The opportunities of the i-th pipeline in the stage named st whose stage
\* date (last stage change, else last update, else creation) is older than
\* now minus the day threshold (default 7).
StuckIn(i, st) ==
  {j \in 1..Len(OppsHeld(i)) :
     LET o == OppsHeld(i)[j]
         d == IF o.lastStageChangeAt.has THEN o.lastStageChangeAt
              ELSE IF o.updatedAt.has THEN o.updatedAt ELSE o.createdAt
     IN /\ d.has
        /\ d.at < mon.now - (IF mon.configured = 0 THEN 7 ELSE mon.configured) * DayMs
        /\ StageOf(i, o) = st}

\* RECURSIVE: the monetary values of the first n opportunities of the i-th
\* pipeline that are in the set S, added up with a missing value as 0.
RECURSIVE ValueIn(_, _, _)
ValueIn(i, S, n) ==
  IF n = 0 THEN 0
  ELSE ValueIn(i, S, n - 1) +
       (IF n \in S /\ OppsHeld(i)[n].priced THEN OppsHeld(i)[n].monetaryValue ELSE 0)

StageNamesSeen == {NameRequested, NameSent, NameOpen, NameConstructor,
                   StageS1, StageS2, StageS3, <<"2">>}

\* C30 (SpecBottlenecks): the opportunities of the first three pipelines at
\* most are searched, and the check fails only when one of its calls does;
\* for each of these pipelines and each stage name, the finding has exactly
\* one entry when at least one opportunity of that stage is older than the
\* threshold and none otherwise; the entry's count is the number of those
\* opportunities and its totalValue the sum of their monetary values, a
\* missing value counting 0; the finding's count is the sum of the entries'
\* counts.
C30_OneEntryPerStuckStage ==
  /\ mon.pc = "failed" => Len(mon.calls) = 1 \/ OppAnswer(Len(mon.calls) - 1).throws
  /\ mon.pc = "returned" =>
      LET n == IF Len(mon.pipelines) < 3 THEN Len(mon.pipelines) ELSE 3
          entries == mon.finding.bottlenecks
          EntriesOf(i, st) == {e \in 1..Len(entries) :
                                 entries[e].pipeline = mon.pipelines[i].name /\ entries[e].stage = st}
      IN /\ Len(mon.calls) = n + 1
         /\ \A i \in 1..n : mon.calls[i + 1] = [tool |-> "searchOpportunities", arg |-> i]
         /\ \A e \in 1..Len(entries) :
              \E i \in 1..n : entries[e].pipeline = mon.pipelines[i].name
         /\ \A i \in 1..n : \A st \in StageNamesSeen :
              /\ Cardinality(EntriesOf(i, st)) = (IF StuckIn(i, st) = {} THEN 0 ELSE 1)
              /\ \A e \in EntriesOf(i, st) :
                   /\ entries[e].count = Cardinality(StuckIn(i, st))
                   /\ entries[e].totalValue = ValueIn(i, StuckIn(i, st), Len(OppsHeld(i)))
         /\ \A e \in 1..Len(entries) : entries[e].stage \in StageNamesSeen
         /\ mon.finding.count =
              Cardinality(UNION {{<<i, j>> : j \in UNION {StuckIn(i, st) : st \in StageNamesSeen}}
                                 : i \in 1..n})

----------------------------------------------------------------------------
(* C31: the slow-response check.                                             *)

\* The history the CRM holds for the i-th contact, when its fetch succeeds.
HistoryHeld(i) ==
  IF HistoryAnswer(i).throws \/ HistoryAnswer(i).result.form \notin {"object", "text"}
  THEN <<>> ELSE HistoryAnswer(i).result.value

\* The i-th contact answered too slowly: its history has at least two
\* messages, an inbound one, and an outbound one dated strictly after the first
\* inbound one, the first of which came more than the threshold later.
AnsweredSlowly(i) ==
  LET h == HistoryHeld(i)
      minutes == IF mon.configured = 0 THEN 30 ELSE mon.configured
  IN /\ Len(h) >= 2
     /\ \E a \in 1..Len(h) :
          /\ h[a].direction = "inbound"
          /\ \A x \in 1..(a - 1) : h[x].direction # "inbound"
          /\ \E b \in 1..Len(h) :
               /\ h[b].direction = "outbound" /\ h[a].dateAdded.has /\ h[b].dateAdded.has
               /\ h[b].dateAdded.at > h[a].dateAdded.at
               /\ \A y \in 1..(b - 1) :
                    ~(/\ h[y].direction = "outbound" /\ h[y].dateAdded.has
                      /\ h[y].dateAdded.at > h[a].dateAdded.at)
               /\ h[b].dateAdded.at - h[a].dateAdded.at > minutes * 60000

\* C31 (SpecSlow): the histories of the first 15 contacts at most are
\* fetched; the check returns a finding whatever fetches fail, and a contact
\* is reported in it exactly when its fetch succeeded and its history has at
\* least two messages, an inbound message, an outbound message dated strictly
\* after the first inbound one, and more than the minute threshold (default
\* 30) between the first inbound and the first such outbound message.
C31_SlowContactsReported ==
  /\ Len(mon.calls) <= 15 + 1
  /\ mon.pc = "returned" =>
       LET n == IF Len(mon.contacts) < 15 THEN Len(mon.contacts) ELSE 15
           reported == {mon.finding.items[k].contactId : k \in 1..Len(mon.finding.items)}
           slowOnes == {i \in 1..n : AnsweredSlowly(i)}
       IN /\ Len(mon.calls) = n + 1
          /\ mon.err = NoError
          /\ mon.finding.check = "slow_responses"
          /\ mon.finding.count = Cardinality(slowOnes)
          /\ Cardinality(slowOnes) <= 10 => reported = slowOnes
          /\ reported \subseteq slowOnes

\* Of 16 contacts, fifteen are examined; the odd ones fail to be fetched, the
\* even ones were answered after 45 minutes: seven contacts are reported.
C31_Witness ==
  /\ mon.pc = "returned"
  /\ mon.size = 16
  /\ mon.configured = 0
  /\ mon.skipped = {1, 3, 5, 7, 9, 11, 13, 15}
  /\ mon.finding.count = 7
  /\ mon.finding.items[7].contactId = 14
  /\ mon.finding.items[7].responseTime = 45

----------------------------------------------------------------------------
(* C32, C33: chunk boundaries and the end of the stream.                     *)

\* What parseSSEResponse returns for a text that arrives as one chunk.
DecodeWhole(text) ==
  IF text = <<>> THEN <<>>
  ELSE LET lines == SplitLines(text)
       IN Flush(lines[Len(lines)], ProcessLines(SubSeq(lines, 1, Len(lines) - 1), <<>>, <<>>))

\* C32 (SpecParse): however the stream is cut into chunks, the messages
\* returned are those returned when the whole stream arrives as one chunk.
C32_ChunkingDoesNotMatter ==
  parse.pc = "done" => parse.messages = DecodeWhole(StreamText(parse.frames))

\* C33 (SpecParse): a stream whose last data line is not ended by a blank
\* line (it ends right after the payload, or after one newline) and whose
\* earlier data lines are, arriving as one chunk, decodes to the values of its
\* well-formed frames, the last one included.
C33_TrailingPayloadDecoded ==
  (/\ parse.pc = "done"
   /\ parse.nchunks = 1
   /\ parse.frames[Len(parse.frames)].newlines \in {0, 1}
   /\ \A i \in 1..(Len(parse.frames) - 1) : parse.frames[i].newlines = 2)
  => parse.messages = FrameValues(parse.frames)

----------------------------------------------------------------------------
\* C34 (SpecClientSeq): in every reachable state the client holds a session
\* id only if it is initialized; after a failed initialize() there is none.
C34_SessionOnlyWhenInitialized ==
  /\ sessionId # Null => initialized
  /\ ev.op = "handshakeFailed" => sessionId = Null

----------------------------------------------------------------------------
(* C35: how the limiter's counters change.                                   *)

\* The step admits a caller.
Admits == ev'.op = "wake" \/ (ev'.op = "acquire" /\ ev'.outcome = "admit")

\* A counter and its window start over one step: unchanged; or the counter
\* is one higher, in a step that admits a caller; or the window of the given
\* size has elapsed and the counter restarts at the current time from 0, plus
\* 1 if the step admits a caller.
CounterStep(count, countNext, start, startNext, size) ==
  \/ countNext = count /\ startNext = start
  \/ countNext = count + 1 /\ startNext = start /\ Admits
  \/ /\ now - start >= size
     /\ startNext = now
     /\ countNext = (IF Admits THEN 1 ELSE 0)

\* C35 (SpecLimiter): each counter changes only by +1 on an admission or by
\* being set to 0 together with its window start; it is reset only when the
\* time since its window start is at least its window size (windowMs for the
\* short window, 24 h for the day), and it never decreases otherwise.
C35_CountersStepOrReset ==
  [][/\ CounterStep(windowCount, windowCount', windowStart, windowStart', opts.windowMs)
     /\ CounterStep(dayCount, dayCount', dayStart, dayStart', 86400000)]_vars

\* An acquire() made after a day has passed restarted both counters and was
\* admitted as the first call of the new day and of the new window.
C35_Witness ==
  /\ ev.op = "acquire" /\ ev.outcome = "admit"
  /\ now >= DayMs
  /\ dayStart = now /\ dayCount = 1
  /\ windowStart = now /\ windowCount = 1
  /\ dayAdmits = 1

----------------------------------------------------------------------------
\* C37 (SpecLimiter): in every interleaving of acquire() calls the day's
\* counter never exceeds maxPerDay and stats().dayRemaining is never negative.
C37_DayCapNeverExceeded ==
  /\ dayCount <= opts.maxPerDay
  /\ ev.op = "stats" => ev.result.dayRemaining >= 0

----------------------------------------------------------------------------
(* C36: the notification that follows a successful handshake.                *)

\* C36 (SpecClientSeq): the step that receives a successful handshake
\* response marks the client initialized and sends notifications/initialized
\* with the session id of that response; whatever the notification's outcome
\* (success, HTTP error, network error, timeout), the step that receives it
\* completes initialize() with the server's capabilities and info and leaves
\* the client initialized with the same session id.
C36_NotificationBestEffort ==
  [][/\ ev'.op = "handshakeDone" =>
          /\ initialized'
          /\ sessionId' = ev'.resp.hdr
          /\ task'[ev'.p].pc = "notif_wait"
          /\ task'[ev'.p].req = Request("notifications/initialized", NoId, sessionId')
     /\ (ev'.op = "notified" /\ task[ev'.p].kind = "initialize") =>
          /\ task'[ev'.p].pc = "done"
          /\ task'[ev'.p].result.capabilities = serverCapabilities
          /\ task'[ev'.p].result.serverInfo = serverInfo
          /\ initialized /\ initialized'
          /\ sessionId' = sessionId
          /\ sessionId = task[ev'.p].req.session]_vars

\* initialize() has returned the server's capabilities although its
\* notification timed out; the client is initialized and holds the session id.
C36_Witness ==
  /\ ev.op = "notified" /\ ev.kind = "timeout"
  /\ task[ev.p].kind = "initialize" /\ task[ev.p].pc = "done"
  /\ task[ev.p].result.capabilities = "caps"
  /\ initialized
  /\ sessionId = "s1"

----------------------------------------------------------------------------
\* C38 (SpecClient): close() is sticky. A response that arrives in the step
\* right after close() belongs to a request that was in flight when close()
\* ran; whether it answers a tools/list or tools/call request or the
\* initialize handshake, it leaves the client closed: no session id and not
\* initialized.
C38_CloseIsSticky ==
  [][(ev.op = "close" /\ ev'.op \in {"toolResponse", "handshakeDone"})
     => (sessionId' = Null /\ ~initialized')]_vars

----------------------------------------------------------------------------
\* C39 (SpecMonitor): the summary of a finished run carries the all-clear
\* line only if every one of the four checks completed without an error and
\* counted 0.
C39_AllClearOnlyWithoutErrors ==
  (mon.pc = "returned" /\ Includes(mon.report.summary, StrAllClear)) =>
    \A k \in Checks : ~mon.report.checks[k].failed /\ mon.report.checks[k].count = 0

----------------------------------------------------------------------------
\* The slots the four checks of the run have acquired so far: the calls of
\* theirs that acquire() has admitted, answered yet or not.
SlotsAcquired ==
  mon.check[1].slots + mon.check[2].slots + mon.check[3].slots + mon.check[4].slots

\* C40 (SpecBudget): a run of the four checks acquires at most 1 slot for the
\* stale-lead check, 1 + 20 for the follow-up check, 1 + 3 for the bottleneck
\* check and 1 + 2 * 15 for the slow-response check, 57 in all, whether the
\* calls that took them have been answered or not. The new limiter has
\* counted exactly these slots in its day; its window holds all of them
\* until it is restarted and never more than them, which is below the
\* default cap of 100, so that no check is ever suspended by the limiter.
C40_RunWithinWindowBudget ==
  mon.pc = "budget" =>
    /\ mon.check[1].slots <= 1
    /\ mon.check[2].slots <= 1 + FollowupContacts
    /\ mon.check[3].slots <= 1 + BottleneckPipelines
    /\ mon.check[4].slots <= 1 + 2 * SlowContacts
    /\ SlotsAcquired <= 57
    /\ dayCount = SlotsAcquired
    /\ windowCount <= SlotsAcquired
    /\ windowStart = 0 => windowCount = SlotsAcquired
    /\ windowCount < DefaultMaxPerWindow
    /\ \A k \in Checks : mon.check[k].pc # "suspended" /\ acq[k].pc = "idle"

\* A finished run that used the whole budget: more records than each loop
\* keeps, and a conversation for every contact.
C40_Witness ==
  /\ mon.pc = "budget"
  /\ \A k \in Checks : mon.check[k].pc = "returned"
  /\ mon.sizes[2] = FollowupContacts + 1 /\ mon.sizes[4] > SlowContacts
  /\ SlotsAcquired = 57
  /\ windowCount = 57

====
